---------------------------- MODULE Spec2Model ----------------------------
(***************************************************************************)
(* Review intelligence pipeline of fintech-reviews-analysis:               *)
(*   - SentimentAnalyzer.score_texts        (src/src/analysis/sentiment.py)*)
(*   - ThemeExtractor.annotate_reviews_...  (src/src/analysis/themes.py)   *)
(*   - SentimentThemePipeline.run           (src/src/analysis/pipeline.py) *)
(*   - InsightsAnalyzer                     (src/src/insights/analyzer.py) *)
(*                                                                         *)
(* Texts are sequences of one-character strings.  Floating point scores    *)
(* are fixed-point integers in hundredths (0.1 is 10, 1.0 is 100), and     *)
(* means are compared by cross-multiplication, so every comparison is the  *)
(* exact rational one.                                                     *)
(***************************************************************************)
EXTENDS Integers, Sequences, FiniteSets, TLC

VARIABLES
    \* ---- SentimentAnalyzer.score_texts
    texts,              \* the argument of score_texts
    batch_size,         \* self.batch_size
    neutral_threshold,  \* self.neutral_threshold, in hundredths
    s_pc,               \* "new" | "loop" | "done" | "raised"
    cleaned_texts,      \* the list `cleaned_texts`
    start,              \* loop variable of the batching loop
    outputs,            \* the list `outputs`
    results,            \* the returned list, NoValue until score_texts returns
    calls,              \* chunks handed to self.classifier, in call order
    classifier,         \* self.classifier: which loaded model answers
    prev,               \* batch size and results of an earlier completed call
    failed,             \* a classifier call of the current invocation raised
    \* ---- ThemeExtractor
    theme_keywords,     \* self.theme_keywords, the catalog
    df,                 \* the reviews handed to annotate_reviews_with_themes
    t_pc,               \* "new" | "annotated" | "raised"
    annotated,          \* the returned frame: the rows of df with their themes
    summary_df,         \* what summarize_themes(annotated) returned
    \* ---- InsightsAnalyzer
    reviews_df,         \* self.reviews_df: bank, themes, rating, sentiment_score
    theme_summary_df,   \* self.theme_summary_df: bank, theme
    i_pc,               \* "new" | "extracted" | "analyzed"
    extracted,          \* what extract_drivers_pain_points(bank) returned
    insights,           \* what analyze_all_banks returned, in the dict's order
    recommendations,    \* what generate_recommendations(insights) returned
    \* ---- SentimentThemePipeline.run
    raw_file,           \* the raw reviews file: unreadable, or columns and rows
    r_pc,               \* where run is
    clean_df,           \* preprocessor.preprocess_data()
    scored_df,          \* self.sentiment.score_dataframe(clean_df, ...)
    annotated_df,       \* annotate_reviews_with_themes(scored_df)
    theme_summary,      \* summarize_themes(annotated_df)
    sentiment_summary,  \* self._aggregate_sentiment(scored_df)
    written,            \* the outputs written so far, in the order written
    warned,             \* the coverage warning has been printed
    r_error,            \* what run was left with, if it raised
    \* ---- DataPreprocessor
    p_df,               \* the frame a method is called on: columns and rows
    p_keep,             \* keep_columns of clean_reviews
    p_pc,               \* "new", or the method that returned
    p_out,              \* the rows the method returned
    \* ---- PlayStoreScraper.scrape_reviews
    sc_app_id,          \* app_id
    sc_count,           \* count
    sc_max_retries,     \* self.max_retries
    sc_attempt,         \* attempt, the loop variable
    sc_pc,              \* "loop", "returned", or "idle"
    sc_result,          \* what scrape_reviews returned, once sc_pc = "returned"
    sc_events           \* the fetches and the sleeps so far, in their order

scoreVars == <<texts, batch_size, neutral_threshold, s_pc, cleaned_texts, start, outputs,
               results, calls, classifier, prev, failed>>

themeVars == <<theme_keywords, df, t_pc, annotated, summary_df>>

insightVars == <<reviews_df, theme_summary_df, i_pc, extracted, insights,
                 recommendations>>

runVars == <<raw_file, r_pc, clean_df, scored_df, annotated_df, theme_summary,
             sentiment_summary, written, warned, r_error>>

preprocessVars == <<p_df, p_keep, p_pc, p_out>>

scrapeVars == <<sc_app_id, sc_count, sc_max_retries, sc_attempt, sc_pc, sc_result,
                sc_events>>

vars == <<scoreVars, themeVars, insightVars, runVars, preprocessVars, scrapeVars>>

\* what the actions of one component leave alone
notScoreVars == <<themeVars, insightVars, runVars, preprocessVars, scrapeVars>>
notThemeVars == <<scoreVars, insightVars, runVars, preprocessVars, scrapeVars>>
notInsightVars == <<scoreVars, themeVars, runVars, preprocessVars, scrapeVars>>
notRunVars == <<scoreVars, themeVars, insightVars, preprocessVars, scrapeVars>>
notPreprocessVars == <<scoreVars, themeVars, insightVars, runVars, scrapeVars>>
notScrapeVars == <<scoreVars, themeVars, insightVars, runVars, preprocessVars>>

---------------------------------------------------------------------------
(* Bounds of the model *)

MaxTexts == 3
MaxBatch == 2
MaxTextLen == 4
MaxReviews == 3
MaxInsightReviews == 3
MaxRawRows == 2
MaxRetries == 3
MaxFetched == 2

NoValue == [none |-> TRUE]

---------------------------------------------------------------------------
(* Characters and strings *)

Min(a, b) == IF a <= b THEN a ELSE b

UpperChars == <<"A","B","C","D","E","F","G","H","I","J","K","L","M",
                "N","O","P","Q","R","S","T","U","V","W","X","Y","Z">>
LowerChars == <<"a","b","c","d","e","f","g","h","i","j","k","l","m",
                "n","o","p","q","r","s","t","u","v","w","x","y","z">>
DigitChars == {"0","1","2","3","4","5","6","7","8","9"}

\* what Python's str.strip() and the regex class \s treat as whitespace
WhitespaceChars == {" ", "\t", "\n", "\r"}

Range(s) == {s[i] : i \in DOMAIN s}

\* str.upper() / str.lower() on one character
UpperChar(c) ==
    IF \E i \in DOMAIN LowerChars : LowerChars[i] = c
    THEN UpperChars[CHOOSE i \in DOMAIN LowerChars : LowerChars[i] = c]
    ELSE c
LowerChar(c) ==
    IF \E i \in DOMAIN UpperChars : UpperChars[i] = c
    THEN LowerChars[CHOOSE i \in DOMAIN UpperChars : UpperChars[i] = c]
    ELSE c

Upper(s) == [i \in DOMAIN s |-> UpperChar(s[i])]
Lower(s) == [i \in DOMAIN s |-> LowerChar(s[i])]

\* the concatenation of a sequence of sequences
RECURSIVE Flatten(_)
Flatten(ss) == IF ss = <<>> THEN <<>> ELSE Head(ss) \o Flatten(Tail(ss))

\* Python's `sub in s`: sub occurs as a contiguous substring of s
Contains(s, sub) ==
    \E k \in 0..(Len(s) - Len(sub)) :
        \A j \in 1..Len(sub) : s[k + j] = sub[j]

\* str.strip(): drop leading and trailing whitespace
Strip(s) ==
    LET keep == {i \in DOMAIN s : s[i] \notin WhitespaceChars}
    IN  IF keep = {} THEN <<>>
        ELSE LET lo == CHOOSE i \in keep : \A j \in keep : i <= j
                 hi == CHOOSE i \in keep : \A j \in keep : j <= i
             IN  SubSeq(s, lo, hi)

---------------------------------------------------------------------------
(* Sentiment scorer: src/src/analysis/sentiment.py *)

POSITIVE == <<"P","O","S","I","T","I","V","E">>
NEGATIVE == <<"N","E","G","A","T","I","V","E">>

\* _normalize_label
normalize_label(label) ==
    LET label_up == Upper(label)
    IN  IF Contains(label_up, <<"P","O","S">>) THEN POSITIVE
        ELSE IF Contains(label_up, <<"N","E","G">>) THEN NEGATIVE
        ELSE label_up

\* An item of `texts`: a str, or something that is not a str (None, NaN).
Str(s) == [isstr |-> TRUE, s |-> s]
NotAStr == [isstr |-> FALSE, s |-> <<>>]

\* The items score_texts is called with in this model.
TextPool ==
    { NotAStr, Str(<<>>), Str(<<" ">>), Str(<<"a">>), Str(<<" ","a">>) }

\* text if isinstance(text, str) and text.strip() else ""
CleanItem(it) == IF it.isstr /\ Strip(it.s) # <<>> THEN it.s ELSE <<>>

\* [... for text in texts], line 57
CleanTexts(ts) == [i \in DOMAIN ts |-> CleanItem(ts[i])]

\* What the external classifier (return_all_scores=True) may answer for one
\* text: a list of label/score entries, scores in hundredths.
ClassifierOutputs ==
    << << [label |-> NEGATIVE, score |-> 35], [label |-> POSITIVE, score |-> 65] >>,
       << [label |-> NEGATIVE, score |-> 95], [label |-> POSITIVE, score |-> 5] >>,
       << [label |-> <<"n","e","g">>, score |-> 55],
          [label |-> <<"p","o","s">>, score |-> 45] >>,
       << [label |-> <<"L","A","B","E","L","_","0">>, score |-> 20],
          [label |-> <<"L","A","B","E","L","_","1">>, score |-> 80] >> >>

\* The loaded models: model k answers a text with one of the outputs above,
\* a function of the text alone (not of the batch it arrives in); over the
\* models every text gets every output.
Classifiers == 0..(Len(ClassifierOutputs) - 1)
TextCode(t) == Len(t) + Cardinality({i \in DOMAIN t : t[i] = "a"})
ClassifierAnswer(k, t) ==
    ClassifierOutputs[((TextCode(t) + k) % Len(ClassifierOutputs)) + 1]

\* self.classifier(chunk): one answer per text of the chunk
Classify(k, chunk) == [i \in DOMAIN chunk |-> ClassifierAnswer(k, chunk[i])]

Thresholds == {10, 30}

\* next((s["score"] for s in scores if _normalize_label(s["label"]) == want), 0.0)
FirstScore(scores, want) ==
    LET hits == {i \in DOMAIN scores : normalize_label(scores[i].label) = want}
    IN  IF hits = {} THEN 0
        ELSE scores[CHOOSE i \in hits : \A j \in hits : i <= j].score

\* the label decision of score_texts, lines 68-73
LabelOfMutGe(signed, t) ==
    IF signed >= t THEN "POSITIVE"
    ELSE IF signed <= -t THEN "NEGATIVE"
    ELSE "NEUTRAL"
LabelOf(signed, t) ==
    IF signed > t THEN "POSITIVE"
    ELSE IF signed < -t THEN "NEGATIVE"
    ELSE "NEUTRAL"

\* one iteration of the result loop, lines 64-83
ScoreItem(text, scores, t) ==
    LET pos_score == FirstScore(scores, POSITIVE)
        neg_score == FirstScore(scores, NEGATIVE)
        signed == pos_score - neg_score
    IN  [ text |-> text,
          sentiment_label |-> LabelOf(signed, t),
          sentiment_score |-> signed,
          positive_score |-> pos_score,
          negative_score |-> neg_score ]

\* cleaned_texts[start : start + self.batch_size]
ChunkMutOverlap(cleaned, st, bs) ==
    SubSeq(cleaned, st + 1, Min(st + bs + 1, Len(cleaned)))
ChunkMutShort(cleaned, st, bs) ==
    SubSeq(cleaned, st + 1, Min(st + bs, Len(cleaned)) - (IF bs > 1 THEN 1 ELSE 0))
Chunk(cleaned, st, bs) == SubSeq(cleaned, st + 1, Min(st + bs, Len(cleaned)))

\* for text, scores in zip(cleaned_texts, outputs): results.append(...)
BuildResults(cleaned, outs, t) ==
    [i \in 1..Min(Len(cleaned), Len(outs)) |-> ScoreItem(cleaned[i], outs[i], t)]

ScoreInit ==
    /\ texts \in UNION {[1..n -> TextPool] : n \in 0..MaxTexts}
    /\ neutral_threshold \in Thresholds
    /\ batch_size = 1
    /\ s_pc = "new"
    /\ cleaned_texts = <<>>
    /\ start = 0
    /\ outputs = <<>>
    /\ results = NoValue
    /\ calls = <<>>
    /\ classifier \in Classifiers
    /\ prev = NoValue
    /\ failed = FALSE

\* An analyzer with batch size b is asked to score `texts` (lines 57-58);
\* after a completed call, an analyzer with the same classifier and
\* threshold and another batch size is asked once more.
ScoreCall(b) ==
    /\ \/ s_pc = "new"
       \/ s_pc = "done" /\ prev = NoValue /\ b # batch_size
    /\ batch_size' = b
    /\ prev' = IF s_pc = "done" THEN [batch_size |-> batch_size, results |-> results]
               ELSE prev
    /\ s_pc' = "loop"
    /\ cleaned_texts' = CleanTexts(texts)
    /\ start' = 0
    /\ outputs' = <<>>
    /\ results' = NoValue
    /\ calls' = <<>>
    /\ failed' = FALSE
    /\ UNCHANGED <<notScoreVars, texts, neutral_threshold, classifier>>

\* One iteration of the batching loop whose classifier call returns:
\* lines 59-61.
ClassifyBatch ==
    /\ s_pc = "loop"
    /\ start < Len(cleaned_texts)
    /\ LET chunk == Chunk(cleaned_texts, start, batch_size)
       IN  /\ calls' = Append(calls, chunk)
           /\ outputs' = outputs \o Classify(classifier, chunk)
    /\ start' = start + batch_size
    /\ UNCHANGED <<notScoreVars, texts, batch_size, neutral_threshold, s_pc, cleaned_texts, results,
                   classifier, prev, failed>>

\* One iteration whose classifier call raises: nothing catches it, so
\* score_texts is left through the exception (lines 59-61).
ClassifierRaisesMutSkip ==
    /\ s_pc = "loop"
    /\ start < Len(cleaned_texts)
    /\ calls' = Append(calls, Chunk(cleaned_texts, start, batch_size))
    /\ failed' = TRUE
    /\ start' = start + batch_size
    /\ UNCHANGED <<notScoreVars, texts, batch_size, neutral_threshold, s_pc, cleaned_texts, outputs,
                   results,
                   classifier, prev>>
ClassifierRaises ==
    /\ s_pc = "loop"
    /\ start < Len(cleaned_texts)
    /\ calls' = Append(calls, Chunk(cleaned_texts, start, batch_size))
    /\ failed' = TRUE
    /\ s_pc' = "raised"
    /\ UNCHANGED <<notScoreVars, texts, batch_size, neutral_threshold, cleaned_texts, start, outputs,
                   results,
                   classifier, prev>>

\* The batching loop is over: build the results and return them, lines 63-84.
ScoreReturn ==
    /\ s_pc = "loop"
    /\ start >= Len(cleaned_texts)
    /\ results' = BuildResults(cleaned_texts, outputs, neutral_threshold)
    /\ s_pc' = "done"
    /\ UNCHANGED <<notScoreVars, texts, batch_size, neutral_threshold, cleaned_texts, start, outputs,
                   calls,
                   classifier, prev, failed>>

ScoreNext ==
    \/ \E b \in 1..MaxBatch : ScoreCall(b)
    \/ ClassifyBatch
    \/ ClassifierRaises
    \/ ScoreReturn

---------------------------------------------------------------------------
(* Theme tagger: src/src/analysis/themes.py *)

\* the characters of this model in code point order, as Python compares str
CodePointOrder ==
    <<"\t", "\n", "\r", " ", "!", "&", ",", "-",
      "0","1","2","3","4","5","6","7","8","9",
      "A","B","C","D","E","F","G","H","I","J","K","L","M",
      "N","O","P","Q","R","S","T","U","V","W","X","Y","Z", "_",
      "a","b","c","d","e","f","g","h","i","j","k","l","m",
      "n","o","p","q","r","s","t","u","v","w","x","y","z">>
Ord(c) == CHOOSE i \in DOMAIN CodePointOrder : CodePointOrder[i] = c

\* a < b on str
StrLess(a, b) ==
    \E k \in 1..(Min(Len(a), Len(b)) + 1) :
        /\ \A j \in 1..(k - 1) : a[j] = b[j]
        /\ \/ k > Len(a) /\ k <= Len(b)
           \/ k <= Len(a) /\ k <= Len(b) /\ Ord(a[k]) < Ord(b[k])

\* sorted(matched) on a set of str
RECURSIVE Sorted(_)
Sorted(S) ==
    IF S = {} THEN <<>>
    ELSE LET m == CHOOSE x \in S : \A y \in S \ {x} : StrLess(x, y)
         IN  <<m>> \o Sorted(S \ {m})

\* "Account Access Issues"
AccountAccessIssues ==
    <<"A","c","c","o","u","n","t"," ","A","c","c","e","s","s"," ","I","s",
      "s","u","e","s">>
\* "Transaction Performance"
TransactionPerformance ==
    <<"T","r","a","n","s","a","c","t","i","o","n"," ","P","e","r","f","o",
      "r","m","a","n","c","e">>
\* "User Interface & Experience"
UserInterfaceExperience ==
    <<"U","s","e","r"," ","I","n","t","e","r","f","a","c","e"," ","&"," ",
      "E","x","p","e","r","i","e","n","c","e">>
\* "Reliability & Stability"
ReliabilityStability ==
    <<"R","e","l","i","a","b","i","l","i","t","y"," ","&"," ","S","t","a",
      "b","i","l","i","t","y">>
\* "Customer Support & Communication"
CustomerSupportCommunication ==
    <<"C","u","s","t","o","m","e","r"," ","S","u","p","p","o","r","t"," ",
      "&"," ","C","o","m","m","u","n","i","c","a","t","i","o","n">>
\* "Feature Requests"
FeatureRequests ==
    <<"F","e","a","t","u","r","e"," ","R","e","q","u","e","s","t","s">>
\* "Other Feedback"
OtherFeedback ==
    <<"O","t","h","e","r"," ","F","e","e","d","b","a","c","k">>

\* DEFAULT_THEME_KEYWORDS, in the dict's order
DEFAULT_THEME_KEYWORDS ==
    <<
      [ theme |-> AccountAccessIssues,
        keywords |-> <<
           \* login, pin, otp, password, credential, account, activation, access, authenticate
           <<"l","o","g","i","n">>,
           <<"p","i","n">>,
           <<"o","t","p">>,
           <<"p","a","s","s","w","o","r","d">>,
           <<"c","r","e","d","e","n","t","i","a","l">>,
           <<"a","c","c","o","u","n","t">>,
           <<"a","c","t","i","v","a","t","i","o","n">>,
           <<"a","c","c","e","s","s">>,
           <<"a","u","t","h","e","n","t","i","c","a","t","e">> >> ],
      [ theme |-> TransactionPerformance,
        keywords |-> <<
           \* transfer, pending, delay, slow, failed, processing, transaction, speed, loading
           <<"t","r","a","n","s","f","e","r">>,
           <<"p","e","n","d","i","n","g">>,
           <<"d","e","l","a","y">>,
           <<"s","l","o","w">>,
           <<"f","a","i","l","e","d">>,
           <<"p","r","o","c","e","s","s","i","n","g">>,
           <<"t","r","a","n","s","a","c","t","i","o","n">>,
           <<"s","p","e","e","d">>,
           <<"l","o","a","d","i","n","g">> >> ],
      [ theme |-> UserInterfaceExperience,
        keywords |-> <<
           \* ui, interface, design, navigation, layout, experience, user-friendly, screen
           <<"u","i">>,
           <<"i","n","t","e","r","f","a","c","e">>,
           <<"d","e","s","i","g","n">>,
           <<"n","a","v","i","g","a","t","i","o","n">>,
           <<"l","a","y","o","u","t">>,
           <<"e","x","p","e","r","i","e","n","c","e">>,
           <<"u","s","e","r","-","f","r","i","e","n","d","l","y">>,
           <<"s","c","r","e","e","n">> >> ],
      [ theme |-> ReliabilityStability,
        keywords |-> <<
           \* crash, error, bug, freeze, lag, issue, stability, reliable, crashes, errors, bugs
           <<"c","r","a","s","h">>,
           <<"e","r","r","o","r">>,
           <<"b","u","g">>,
           <<"f","r","e","e","z","e">>,
           <<"l","a","g">>,
           <<"i","s","s","u","e">>,
           <<"s","t","a","b","i","l","i","t","y">>,
           <<"r","e","l","i","a","b","l","e">>,
           <<"c","r","a","s","h","e","s">>,
           <<"e","r","r","o","r","s">>,
           <<"b","u","g","s">> >> ],
      [ theme |-> CustomerSupportCommunication,
        keywords |-> <<
           \* support, service, help, respond, call, branch, customer, care, contact
           <<"s","u","p","p","o","r","t">>,
           <<"s","e","r","v","i","c","e">>,
           <<"h","e","l","p">>,
           <<"r","e","s","p","o","n","d">>,
           <<"c","a","l","l">>,
           <<"b","r","a","n","c","h">>,
           <<"c","u","s","t","o","m","e","r">>,
           <<"c","a","r","e">>,
           <<"c","o","n","t","a","c","t">> >> ],
      [ theme |-> FeatureRequests,
        keywords |-> <<
           \* feature, add, need, would like, option, card, request, suggestion, improve
           <<"f","e","a","t","u","r","e">>,
           <<"a","d","d">>,
           <<"n","e","e","d">>,
           <<"w","o","u","l","d"," ","l","i","k","e">>,
           <<"o","p","t","i","o","n">>,
           <<"c","a","r","d">>,
           <<"r","e","q","u","e","s","t">>,
           <<"s","u","g","g","e","s","t","i","o","n">>,
           <<"i","m","p","r","o","v","e">> >> ]
    >>

\* A catalog passed as theme_keywords: theme "ab" with keyword "ab", theme
\* "a" with the two-word keyword "a b", theme "B" with keywords "bb" and "b-a".
CustomThemeKeywords ==
    << [ theme |-> <<"a","b">>, keywords |-> << <<"a","b">> >> ],
       [ theme |-> <<"a">>,     keywords |-> << <<"a"," ","b">> >> ],
       [ theme |-> <<"B">>,     keywords |-> << <<"b","b">>, <<"b","-","a">> >> ] >>

AlnumLower == Range(LowerChars) \cup DigitChars

\* re.sub(r"\s+", " ", text): every run of whitespace becomes one space
RECURSIVE CollapseWhitespace(_, _)
CollapseWhitespace(s, inrun) ==
    IF s = <<>> THEN <<>>
    ELSE IF Head(s) \in WhitespaceChars
         THEN (IF inrun THEN <<>> ELSE <<" ">>) \o CollapseWhitespace(Tail(s), TRUE)
         ELSE <<Head(s)>> \o CollapseWhitespace(Tail(s), FALSE)

\* _clean_text(text) with lemmatize=False
CleanTextMutKeepsHyphen(text) ==
    LET lowered == Lower(text)
        spaced == [i \in DOMAIN lowered |->
                      IF \/ lowered[i] \in AlnumLower
                         \/ lowered[i] \in WhitespaceChars
                         \/ lowered[i] = "-"
                      THEN lowered[i] ELSE " "]
    IN  Strip(CollapseWhitespace(spaced, FALSE))
CleanTextMutDelete(text) ==
    LET lowered == Lower(text)
        kept == SelectSeq(lowered,
                    LAMBDA c : c \in AlnumLower \/ c \in WhitespaceChars)
    IN  Strip(CollapseWhitespace(kept, FALSE))
CleanText(text) ==
    LET lowered == Lower(text)
        spaced == [i \in DOMAIN lowered |->
                      IF lowered[i] \in AlnumLower \/ lowered[i] \in WhitespaceChars
                      THEN lowered[i] ELSE " "]
    IN  Strip(CollapseWhitespace(spaced, FALSE))

\* any(keyword in text for keyword in keywords)
AnyKeywordIn(keywords, text) ==
    \E k \in DOMAIN keywords : Contains(text, keywords[k])

\* detect_themes(row), given the row's text
DetectThemesMutNoSentinel(catalog, review) ==
    LET text == CleanText(review)
    IN  Sorted({catalog[i].theme : i \in {j \in DOMAIN catalog :
                    AnyKeywordIn(catalog[j].keywords, text)}})
DetectThemes(catalog, review) ==
    LET text == CleanText(review)
        matched == {catalog[i].theme : i \in {j \in DOMAIN catalog :
                        AnyKeywordIn(catalog[j].keywords, text)}}
    IN  IF matched # {} THEN Sorted(matched) ELSE <<OtherFeedback>>

Banks == {"BankA", "BankB"}

\* "Transfer failed again, app crashes every time"
ScenarioAText ==
    <<"T","r","a","n","s","f","e","r"," ","f","a","i","l","e","d"," ","a",
      "g","a","i","n",","," ","a","p","p"," ","c","r","a","s","h","e","s",
      " ","e","v","e","r","y"," ","t","i","m","e">>
\* "Very User-Friendly!"
UserFriendlyText ==
    <<"V","e","r","y"," ","U","s","e","r","-","F","r","i","e","n","d","l",
      "y","!">>
\* "I would, like dark mode"
WouldLikeText ==
    <<"I"," ","w","o","u","l","d",","," ","l","i","k","e"," ","d","a","r",
      "k"," ","m","o","d","e">>
\* "Discarded"
DiscardedText ==
    <<"D","i","s","c","a","r","d","e","d">>
\* "Good"
GoodText ==
    <<"G","o","o","d">>
\* "Cannot log-in"
LogInText ==
    <<"C","a","n","n","o","t"," ","l","o","g","-","i","n">>

\* "app  crash"
AppCrashText == <<"a","p","p"," "," ","c","r","a","s","h">>

\* review texts of the frames annotated with the default catalog
SampleTexts ==
    {ScenarioAText, UserFriendlyText, WouldLikeText, DiscardedText, LogInText,
     AppCrashText}

\* every str of at most n characters over a set of characters
StringsUpTo(chars, n) == UNION {[1..k -> chars] : k \in 0..n}

Row(bank, review) == [bank |-> bank, review |-> review]

\* The frames handed to the theme extractor: with the custom catalog one row
\* with any short text (or a missing text), with the default catalog up to
\* MaxReviews rows of the sample texts.
CustomFrames ==
    {<<Row("BankA", r)>> :
        r \in {Str(x) : x \in StringsUpTo({"a", "b", "B", " ", "-"}, MaxTextLen)}
              \cup {NotAStr}}
SampleRows ==
    {Row("BankA", Str(x)) : x \in SampleTexts} \cup {Row("BankB", Str(ScenarioAText))}
SampleFrames == UNION {[1..n -> SampleRows] : n \in 1..MaxReviews}

\* Series.unique(): the values in order of first appearance
Unique(s) ==
    LET first == SelectSeq([i \in DOMAIN s |-> i],
                           LAMBDA i : \A j \in 1..(i - 1) : s[j] # s[i])
    IN  [k \in DOMAIN first |-> s[first[k]]]

\* banks in the order groupby and sort_values put them
BankOrder == <<"BankA", "BankB">>

\* round(coverage * 100, 2), in hundredths of a percent: to the nearest
\* hundredth, a tie going to the even one
CoveragePctMutTrunc(count, total) == (count * 10000) \div total
CoveragePct(count, total) ==
    LET q == (count * 10000) \div total
        rest == (count * 10000) % total
    IN  IF 2 * rest > total \/ (2 * rest = total /\ q % 2 = 1) THEN q + 1 ELSE q

\* sort_values by coverage_pct, descending, within a bank: stable
RECURSIVE SortedByCoverageMutAscending(_)
SortedByCoverageMutAscending(entries) ==
    IF entries = <<>> THEN <<>>
    ELSE LET front == SortedByCoverageMutAscending(SubSeq(entries, 1, Len(entries) - 1))
             x == entries[Len(entries)]
             stay == {i \in DOMAIN front : front[i].coverage_pct <= x.coverage_pct}
             k == IF stay = {} THEN 0
                  ELSE CHOOSE i \in stay : \A j \in stay : j <= i
         IN  SubSeq(front, 1, k) \o <<x>> \o SubSeq(front, k + 1, Len(front))
RECURSIVE SortedByCoverage(_)
SortedByCoverage(entries) ==
    IF entries = <<>> THEN <<>>
    ELSE LET front == SortedByCoverage(SubSeq(entries, 1, Len(entries) - 1))
             x == entries[Len(entries)]
             stay == {i \in DOMAIN front : front[i].coverage_pct >= x.coverage_pct}
             k == IF stay = {} THEN 0
                  ELSE CHOOSE i \in stay : \A j \in stay : j <= i
         IN  SubSeq(front, 1, k) \o <<x>> \o SubSeq(front, k + 1, Len(front))

\* total = max(len(subset), 1)
SubsetTotalMutOffByOne(subset) == IF Len(subset) > 2 THEN Len(subset) - 1 ELSE 1
SubsetTotal(subset) == IF Len(subset) > 1 THEN Len(subset) ELSE 1

\* the keys of themes_counts, in the order setdefault made them
ThemesCountedMutNoSentinel(subset) ==
    SelectSeq(Unique(Flatten([i \in DOMAIN subset |-> subset[i].themes])),
              LAMBDA theme : theme # OtherFeedback)
ThemesCounted(subset) ==
    Unique(Flatten([i \in DOMAIN subset |-> subset[i].themes]))

\* r.get(id_column, ""): the id of a row, "" in a frame without ids
NoId == ""
ExampleId(r) == IF "review_id" \in DOMAIN r THEN r.review_id ELSE NoId

\* the ThemeSummary rows of one bank; the TF-IDF keywords are left out
BankThemeSummary(frame, bank) ==
    LET subset == SelectSeq(frame, LAMBDA r : r.bank = bank)
        total == SubsetTotal(subset)
        themes == ThemesCounted(subset)
        rows(theme) == SelectSeq(subset, LAMBDA r : theme \in Range(r.themes))
    IN  [k \in DOMAIN themes |->
            [ bank |-> bank,
              theme |-> themes[k],
              coverage_pct |-> CoveragePct(Len(rows(themes[k])), total),
              example_reviews |->
                  [j \in 1..Min(3, Len(rows(themes[k]))) |->
                      ExampleId(rows(themes[k])[j])] ]]

\* summarize_themes when the TF-IDF calls return
SummarizeThemes(frame) ==
    Flatten([b \in DOMAIN BankOrder |->
                SortedByCoverage(BankThemeSummary(frame, BankOrder[b]))])

ThemeInit ==
    /\ \/ theme_keywords = CustomThemeKeywords /\ df \in CustomFrames
       \/ theme_keywords = DEFAULT_THEME_KEYWORDS /\ df \in SampleFrames
    /\ t_pc = "new"
    /\ annotated = NoValue
    /\ summary_df = NoValue

\* annotate_reviews_with_themes on a frame whose texts are all str
Annotate ==
    /\ t_pc = "new"
    /\ \A i \in DOMAIN df : df[i].review.isstr
    /\ annotated' = [i \in DOMAIN df |->
                        [ bank |-> df[i].bank,
                          review |-> df[i].review,
                          themes |-> DetectThemes(theme_keywords, df[i].review.s) ]]
    /\ t_pc' = "annotated"
    /\ UNCHANGED <<notThemeVars, theme_keywords, df, summary_df>>

\* annotate_reviews_with_themes on a frame with a text that is not a str:
\* text.lower() in _clean_text raises
AnnotateRaises ==
    /\ t_pc = "new"
    /\ \E i \in DOMAIN df : ~df[i].review.isstr
    /\ t_pc' = "raised"
    /\ UNCHANGED <<notThemeVars, theme_keywords, df, annotated, summary_df>>

\* summarize_themes on the annotated frame, every TF-IDF call returning
Summarize ==
    /\ t_pc = "annotated"
    /\ summary_df' = SummarizeThemes(annotated)
    /\ t_pc' = "summarized"
    /\ UNCHANGED <<notThemeVars, theme_keywords, df, annotated>>

\* summarize_themes on the annotated frame, a TF-IDF call
\* (vectorizer.fit_transform in extract_keywords_by_bank) raising
SummarizeRaises ==
    /\ t_pc = "annotated"
    /\ t_pc' = "raised"
    /\ UNCHANGED <<notThemeVars, theme_keywords, df, annotated, summary_df>>

ThemeNext ==
    \/ Annotate
    \/ AnnotateRaises
    \/ Summarize
    \/ SummarizeRaises

---------------------------------------------------------------------------
(* Insight synthesizer: src/src/insights/analyzer.py *)

\* the sum of a column, as in frame[field].mean() * len(frame)
RECURSIVE SumRange(_, _, _, _)
SumRange(frame, field, lo, hi) ==
    IF lo > hi THEN 0
    ELSE IF lo = hi THEN frame[lo][field]
    ELSE LET mid == (lo + hi) \div 2
         IN  SumRange(frame, field, lo, mid) + SumRange(frame, field, mid + 1, hi)
SumOf(frame, field) == SumRange(frame, field, 1, Len(frame))

\* is_driver and is_pain_point on the sums of a subset: the mean sentiment
\* score (in hundredths) against 0.1 and -0.1, the mean rating against 3.5
\* and 3.0
IsDriver(sentiment_sum, rating_sum, count) ==
    sentiment_sum > 10 * count /\ 2 * rating_sum >= 7 * count
IsPainPoint(sentiment_sum, rating_sum, count) ==
    sentiment_sum < -10 * count /\ rating_sum <= 3 * count

\* the if / elif on is_driver and is_pain_point: the lists an entry goes to
CategoriesMutLoose(sentiment_sum, rating_sum, count) ==
    (IF sentiment_sum > 10 * count \/ 2 * rating_sum >= 7 * count
     THEN {"driver"} ELSE {})
    \cup (IF sentiment_sum < -10 * count \/ rating_sum <= 3 * count
          THEN {"pain_point"} ELSE {})
CategoriesMutGe(sentiment_sum, rating_sum, count) ==
    IF sentiment_sum >= 10 * count /\ 2 * rating_sum >= 7 * count THEN {"driver"}
    ELSE IF sentiment_sum <= -10 * count /\ rating_sum <= 3 * count
         THEN {"pain_point"}
    ELSE {}
Categories(sentiment_sum, rating_sum, count) ==
    IF IsDriver(sentiment_sum, rating_sum, count) THEN {"driver"}
    ELSE IF IsPainPoint(sentiment_sum, rating_sum, count) THEN {"pain_point"}
    ELSE {}

\* the positions of the rows of frame.nlargest(n, 'sentiment_score'), or of
\* nsmallest: the best row not yet taken, the first of equal ones
RECURSIVE Picked(_, _, _, _)
Picked(frame, n, largest, taken) ==
    LET left == DOMAIN frame \ taken
    IN  IF n = 0 \/ left = {} THEN <<>>
        ELSE LET i == CHOOSE c \in left : \A j \in left :
                          LET a == frame[c].sentiment_score
                              b == frame[j].sentiment_score
                          IN  \/ IF largest THEN a > b ELSE a < b
                              \/ a = b /\ c <= j
             IN  <<i>> \o Picked(frame, n - 1, largest, taken \cup {i})

\* r[:150] + '...' if len(r) > 150 else r
Truncated(r) ==
    IF Len(r) > 150 THEN SubSeq(r, 1, 150) \o <<".", ".", ".">> ELSE r

\* example_reviews: nlargest(2) when avg_sentiment > 0, nsmallest(2) otherwise
ExampleReviewsMutLargest(theme_reviews) ==
    LET picked == Picked(theme_reviews, 2, TRUE, {})
    IN  [k \in DOMAIN picked |-> Truncated(theme_reviews[picked[k]].review)]
ExampleReviews(theme_reviews) ==
    LET picked == Picked(theme_reviews, 2,
                         SumOf(theme_reviews, "sentiment_score") > 0, {})
    IN  [k \in DOMAIN picked |-> Truncated(theme_reviews[picked[k]].review)]

\* DriverPainPoint: avg_rating and sentiment_score are kept as sum and count
DriverPainPoint(bank, category, theme, theme_reviews) ==
    [ bank |-> bank,
      category |-> category,
      theme |-> theme,
      example_reviews |-> ExampleReviews(theme_reviews),
      evidence_count |-> Len(theme_reviews),
      rating_sum |-> SumOf(theme_reviews, "rating"),
      sentiment_sum |-> SumOf(theme_reviews, "sentiment_score") ]

\* x.sentiment_score < y.sentiment_score
SentimentLess(x, y) ==
    x.sentiment_sum * y.evidence_count < y.sentiment_sum * x.evidence_count

\* list.sort(key=lambda x: x.sentiment_score, reverse=...), which is stable:
\* an entry goes behind every entry it does not sort before
RECURSIVE SortedBySentimentMutNoReverse(_, _)
SortedBySentimentMutNoReverse(entries, reverse) ==
    IF entries = <<>> THEN <<>>
    ELSE LET front == SortedBySentimentMutNoReverse(
                          SubSeq(entries, 1, Len(entries) - 1), reverse)
             x == entries[Len(entries)]
             stay == {i \in DOMAIN front : ~SentimentLess(x, front[i])}
             k == IF stay = {} THEN 0
                  ELSE CHOOSE i \in stay : \A j \in stay : j <= i
         IN  SubSeq(front, 1, k) \o <<x>> \o SubSeq(front, k + 1, Len(front))
RECURSIVE SortedBySentiment(_, _)
SortedBySentiment(entries, reverse) ==
    IF entries = <<>> THEN <<>>
    ELSE LET front == SortedBySentiment(SubSeq(entries, 1, Len(entries) - 1), reverse)
             x == entries[Len(entries)]
             Before(a, b) == IF reverse THEN SentimentLess(b, a)
                             ELSE SentimentLess(a, b)
             stay == {i \in DOMAIN front : ~Before(x, front[i])}
             k == IF stay = {} THEN 0
                  ELSE CHOOSE i \in stay : \A j \in stay : j <= i
         IN  SubSeq(front, 1, k) \o <<x>> \o SubSeq(front, k + 1, Len(front))

\* if theme == 'Other Feedback': continue
SkipThemeMutNone(theme) == FALSE
SkipTheme(theme) == theme = OtherFeedback

\* the loop over the theme rows of the bank
RECURSIVE ClassifyThemes(_, _, _)
ClassifyThemes(bank, bank_themes, bank_reviews) ==
    IF bank_themes = <<>> THEN [drivers |-> <<>>, pain_points |-> <<>>]
    ELSE LET rest == ClassifyThemes(bank,
                        SubSeq(bank_themes, 1, Len(bank_themes) - 1), bank_reviews)
             theme == bank_themes[Len(bank_themes)].theme
             theme_reviews ==
                 SelectSeq(bank_reviews, LAMBDA r : theme \in Range(r.themes))
             cats == Categories(SumOf(theme_reviews, "sentiment_score"),
                                SumOf(theme_reviews, "rating"),
                                Len(theme_reviews))
         IN  IF SkipTheme(theme) \/ theme_reviews = <<>> THEN rest
             ELSE [ drivers |->
                      IF "driver" \in cats
                      THEN Append(rest.drivers,
                                  DriverPainPoint(bank, "driver", theme, theme_reviews))
                      ELSE rest.drivers,
                    pain_points |->
                      IF "pain_point" \in cats
                      THEN Append(rest.pain_points,
                                  DriverPainPoint(bank, "pain_point", theme,
                                                  theme_reviews))
                      ELSE rest.pain_points ]

\* extract_drivers_pain_points(bank)
ExtractDriversPainPoints(bank) ==
    LET bank_reviews == SelectSeq(reviews_df, LAMBDA r : r.bank = bank)
        bank_themes == SelectSeq(theme_summary_df, LAMBDA t : t.bank = bank)
        found == ClassifyThemes(bank, bank_themes, bank_reviews)
    IN  IF bank_reviews = <<>> THEN [drivers |-> <<>>, pain_points |-> <<>>]
        ELSE [ drivers |->
                 SortedBySentiment(found.drivers, TRUE),
               pain_points |->
                 SortedBySentiment(found.pain_points, FALSE) ]

\* BankInsights of one bank in analyze_all_banks
BankInsights(bank) ==
    LET found == ExtractDriversPainPoints(bank)
        bank_reviews == SelectSeq(reviews_df, LAMBDA r : r.bank = bank)
    IN  [ bank |-> bank,
          drivers |-> found.drivers,
          pain_points |-> found.pain_points,
          rating_sum |-> SumOf(bank_reviews, "rating"),
          sentiment_sum |-> SumOf(bank_reviews, "sentiment_score"),
          total_reviews |-> Len(bank_reviews) ]

Review(bank, review, themes, rating, sentiment_score) ==
    [ bank |-> bank, review |-> review, themes |-> themes, rating |-> rating,
      sentiment_score |-> sentiment_score ]

\* a review text of n characters that begins with c
TextOf(c, n) == <<c>> \o [i \in 1..(n - 1) |-> "x"]

\* the rating, the sentiment score (hundredths) and the text of a review:
\* texts of 151, 2, 150 and 152 characters
Marks ==
    { <<1, -90, TextOf("a", 151)>>, <<3, -10, TextOf("b", 2)>>,
      <<4, 50, TextOf("c", 150)>>, <<5, 10, TextOf("d", 152)>> }
LowMark == <<1, -90, TextOf("a", 151)>>
HighMark == <<4, 50, TextOf("c", 150)>>

\* "Fees", a theme of a custom catalog
Fees == <<"F","e","e","s">>

\* the reviews the frames of this model are made of
InsightReviewPool ==
    {Review("BankA", m[3], <<TransactionPerformance>>, m[1], m[2]) : m \in Marks}
    \cup {Review("BankA", m[3], <<ReliabilityStability, TransactionPerformance>>,
                 m[1], m[2]) : m \in {LowMark, HighMark}}
    \cup {Review("BankA", TextOf("e", 3),
                 <<AccountAccessIssues, Fees, ReliabilityStability,
                   TransactionPerformance>>, 1, -90)}
    \cup {Review("BankA", TextOf("o", 3), <<OtherFeedback>>, 1, -90),
          Review("BankA", TextOf("p", 3), <<OtherFeedback>>, 4, 50)}
    \cup {Review("BankA", TextOf("f", 3), <<AccountAccessIssues>>, 5, 20)}
    \cup {Review("BankB", m[3], <<TransactionPerformance>>, m[1], m[2]) :
            m \in {HighMark}}

\* 50 reviews of one bank carrying "Customer Support & Communication", with
\* mean rating 4.2 and mean sentiment 0.35
ScenarioBReviews ==
    [i \in 1..50 |->
        Review("BankA", TextOf("s", 3), <<CustomerSupportCommunication>>,
               IF i <= 40 THEN 4 ELSE 5, 35)]

\* n reviews of one bank carrying "Transaction Performance", all of rating 1
\* and of one sentiment score
UniformReviews(n, sentiment_score) ==
    [i \in 1..n |->
        Review("BankA", TextOf("u", 3), <<TransactionPerformance>>, 1,
               sentiment_score)]

\* frames with 50, 51 and 120 reviews behind one theme, of mean sentiment
\* -0.8, -0.7, -0.6 and -0.5
EvidenceFrames ==
    {UniformReviews(n, sc) : n \in {50, 51, 120}, sc \in {-80, -70, -60, -50}}

InsightFrames ==
    UNION {[1..n -> InsightReviewPool] : n \in 0..MaxInsightReviews}
    \cup {ScenarioBReviews}
    \cup EvidenceFrames

\* The theme summary that goes with a frame of reviews: one row per bank and
\* theme carried, by bank.
ThemeRows(reviews) ==
    LET carried(b) == Sorted(UNION {Range(reviews[i].themes) :
                                      i \in {j \in DOMAIN reviews : reviews[j].bank = b}})
        rows(b) == [k \in DOMAIN carried(b) |-> [bank |-> b, theme |-> carried(b)[k]]]
    IN  rows("BankA") \o rows("BankB")

\* rows of the summary whose theme no review of the frame carries, and a
\* row of a bank without reviews
StaleRows ==
    << [bank |-> "BankA", theme |-> FeatureRequests],
       [bank |-> "BankC", theme |-> TransactionPerformance] >>

InsightInit ==
    /\ reviews_df \in InsightFrames
    /\ theme_summary_df \in {ThemeRows(reviews_df), StaleRows \o ThemeRows(reviews_df)}
    /\ i_pc = "new"
    /\ extracted = NoValue
    /\ insights = NoValue
    /\ recommendations = NoValue

\* a call of extract_drivers_pain_points
ExtractCall(bank) ==
    /\ i_pc = "new"
    /\ extracted' = [bank |-> bank] @@ ExtractDriversPainPoints(bank)
    /\ i_pc' = "extracted"
    /\ UNCHANGED <<notInsightVars, reviews_df, theme_summary_df, insights,
                   recommendations>>

\* a call of analyze_all_banks
AnalyzeAllBanks ==
    /\ i_pc = "new"
    /\ LET banks == Unique([i \in DOMAIN reviews_df |-> reviews_df[i].bank])
       IN  insights' = [i \in DOMAIN banks |-> BankInsights(banks[i])]
    /\ i_pc' = "analyzed"
    /\ UNCHANGED <<notInsightVars, reviews_df, theme_summary_df, extracted,
                   recommendations>>

\* the themes of pain_point_to_recommendation and the level their impact
\* text begins with
pain_point_to_recommendation ==
    << [theme |-> ReliabilityStability, impact |-> "High"],
       [theme |-> TransactionPerformance, impact |-> "High"],
       [theme |-> AccountAccessIssues, impact |-> "High"],
       [theme |-> CustomerSupportCommunication, impact |-> "Medium"],
       [theme |-> UserInterfaceExperience, impact |-> "Medium"],
       [theme |-> FeatureRequests, impact |-> "Medium"] >>

\* the priority of a pain point: sentiment_score against -0.7 and -0.5,
\* evidence_count against 50
PriorityMutGe(sentiment_sum, evidence_count) ==
    IF sentiment_sum < -70 * evidence_count /\ evidence_count >= 50 THEN "High"
    ELSE IF sentiment_sum < -50 * evidence_count THEN "Medium"
    ELSE "Low"
Priority(sentiment_sum, evidence_count) ==
    IF sentiment_sum < -70 * evidence_count /\ evidence_count > 50 THEN "High"
    ELSE IF sentiment_sum < -50 * evidence_count THEN "Medium"
    ELSE "Low"

\* bank_insights.pain_points[:3]
TopPainPointsMutAll(pain_points) == pain_points
TopPainPoints(pain_points) == SubSeq(pain_points, 1, Min(3, Len(pain_points)))

\* the recommendations of one bank: the inner loop of generate_recommendations
BankRecommendations(bank_insights) ==
    LET top == TopPainPoints(bank_insights.pain_points)
        known == SelectSeq(top,
                     LAMBDA pp : \E k \in DOMAIN pain_point_to_recommendation :
                                    pain_point_to_recommendation[k].theme = pp.theme)
        rec_info(theme) ==
            pain_point_to_recommendation[
                CHOOSE k \in DOMAIN pain_point_to_recommendation :
                    pain_point_to_recommendation[k].theme = theme]
    IN  [k \in DOMAIN known |->
            [ bank |-> bank_insights.bank,
              priority |-> Priority(known[k].sentiment_sum, known[k].evidence_count),
              theme |-> known[k].theme,
              estimated_impact |-> rec_info(known[k].theme).impact ]]

\* a call of generate_recommendations with what analyze_all_banks returned
GenerateRecommendations ==
    /\ i_pc = "analyzed"
    /\ recommendations' =
          Flatten([i \in DOMAIN insights |-> BankRecommendations(insights[i])])
    /\ i_pc' = "recommended"
    /\ UNCHANGED <<notInsightVars, reviews_df, theme_summary_df, extracted, insights>>

InsightNext ==
    \/ \E bank \in Banks \cup {"BankC"} : ExtractCall(bank)
    \/ AnalyzeAllBanks
    \/ GenerateRecommendations

---------------------------------------------------------------------------
(* Pipeline: src/src/analysis/pipeline.py with src/src/preprocessor.py *)

\* a missing bank (NaN)
NoBank == "nan"

\* "ok"
OkText == <<"o","k">>

RawRow(review_id, bank, review, rating, date_ok) ==
    [ review_id |-> review_id, bank |-> bank, review |-> review,
      rating |-> rating, date_ok |-> date_ok ]

\* the rows the raw files of this model are made of
RawRowPool ==
    { RawRow(1, "BankA", Str(AppCrashText), 1, TRUE),
      RawRow(2, "BankA", Str(GoodText), 5, TRUE),
      RawRow(3, "BankB", Str(LogInText), 2, TRUE),
      RawRow(4, "BankA", NotAStr, 3, TRUE),
      RawRow(5, "BankB", Str(OkText), 6, TRUE),
      RawRow(6, NoBank, Str(GoodText), 4, FALSE),
      RawRow(7, "BankA", Str(DiscardedText), 5, TRUE) }

\* required = {"review", "rating", "date", "bank"} in preprocess_data
required == {"review", "rating", "date", "bank"}

\* a file that cannot be read
Unreadable ==
    [readable |-> FALSE, columns |-> {}, required |-> FALSE, rows |-> <<>>]
\* a readable file with its columns (as renamed by preprocess_data);
\* required: it has the review, rating, date and bank columns
RawFile(columns, rows) ==
    [ readable |-> TRUE, columns |-> columns,
      required |-> required \subseteq columns, rows |-> rows ]

RawFiles ==
    {Unreadable}
    \cup {RawFile((required \ {col}) \cup {"review_id"}, <<>>) : col \in required}
    \cup {RawFile(required \cup {"review_id"}, rows) :
            rows \in UNION {[1..n -> RawRowPool] : n \in 0..MaxRawRows}}

\* raise FileNotFoundError("Raw reviews file could not be loaded.")
RawFileNotLoaded ==
    << "R", "a", "w", " ", "r", "e", "v", "i", "e", "w", "s", " ",
       "f", "i", "l", "e", " ", "c", "o", "u", "l", "d", " ", "n",
       "o", "t", " ", "b", "e", " ", "l", "o", "a", "d", "e", "d",
       "." >>
\* raise RuntimeError("Preprocessing failed.")
PreprocessingFailed ==
    << "P", "r", "e", "p", "r", "o", "c", "e", "s", "s", "i", "n",
       "g", " ", "f", "a", "i", "l", "e", "d", "." >>
\* the message of an exception that run raises itself; the message of an
\* exception raised below run is not modelled
RunMessage(error) ==
    IF error = "FileNotFoundError" THEN RawFileNotLoaded
    ELSE IF error = "RuntimeError" THEN PreprocessingFailed
    ELSE <<>>

\* DataPreprocessor.min_review_length
min_review_length == 3

\* the review column of clean_reviews: fillna(""), astype(str), runs of
\* whitespace to one space, strip
CleanReviewText(review) ==
    IF review.isstr THEN Strip(CollapseWhitespace(review.s, FALSE)) ELSE <<>>

\* subset = ["review_id"] if "review_id" in df.columns else
\* ["review", "rating", "bank"]: what drop_duplicates compares of a row
DuplicateKeyMutTriple(columns, row) == <<row.review, row.rating, row.bank>>
DuplicateKey(columns, row) ==
    IF "review_id" \in columns THEN <<row.review_id>>
    ELSE <<row.review, row.rating, row.bank>>

\* remove_duplicates: drop_duplicates keeps the first row of every key
RemoveDuplicates(columns, rows) ==
    LET first == SelectSeq([i \in DOMAIN rows |-> i],
                    LAMBDA i : \A j \in 1..(i - 1) :
                        DuplicateKey(columns, rows[j]) # DuplicateKey(columns, rows[i]))
    IN  [k \in DOMAIN first |-> rows[first[k]]]

\* validate_ratings: df["rating"].between(1, 5), and dropna on rating
ValidateRatingsMutAboveZero(rows) == SelectSeq(rows, LAMBDA r : r.rating >= 0 /\ r.rating <= 5)
ValidateRatings(rows) == SelectSeq(rows, LAMBDA r : r.rating >= 1 /\ r.rating <= 5)

\* df["review"].fillna("").astype(str) on one value
AsStr(review) == IF review.isstr THEN review.s ELSE <<>>

\* filter_review_length: the rows whose review, as a str, has at least
\* min_review_length characters, the review column replaced by the str
FilterReviewLength(rows) ==
    LET reviews == [i \in DOMAIN rows |-> AsStr(rows[i].review)]
        mask == SelectSeq([i \in DOMAIN rows |-> i],
                          LAMBDA i : Len(reviews[i]) >= min_review_length)
    IN  [k \in DOMAIN mask |->
            [rows[mask[k]] EXCEPT !.review = Str(reviews[mask[k]])]]

\* normalize_dates: the rows whose date pd.to_datetime can parse
NormalizeDates(rows) == SelectSeq(rows, LAMBDA r : r.date_ok)

\* cleaned.get("source", "Google Play").fillna("Google Play")
GooglePlay == "Google Play"

\* DataPreprocessor.clean_reviews(df, keep_columns) on a frame with the
\* review, rating, date and bank columns and no source column; the date
\* column of a row is kept as date_ok: the date can be parsed
CleanReviews(columns, rows, keep_columns) ==
    LET cleaned == [i \in DOMAIN rows |->
                       [rows[i] EXCEPT !.review = Str(CleanReviewText(rows[i].review))]]
        banked == SelectSeq(cleaned, LAMBDA r : r.bank # NoBank)
        deduped == RemoveDuplicates(columns, banked)
        rated == ValidateRatings(deduped)
        dated == NormalizeDates(rated)
        long == FilterReviewLength(dated)
        kept == SelectSeq(long, LAMBDA r : Len(r.review.s) > 0)
        final_columns == {"review", "rating", "date_ok", "bank", "source"}
                             \cup (keep_columns \cap columns)
    IN  [i \in DOMAIN kept |->
            [col \in final_columns |->
                IF col = "source" THEN GooglePlay
                ELSE IF col = "review" THEN kept[i].review.s
                ELSE kept[i][col]]]

\* pd.concat([df, scored_df], axis=1) in score_dataframe
ScoredFrameMutDropsNeutral(frame, res) ==
    LET kept == SelectSeq([i \in DOMAIN frame |-> i],
                          LAMBDA i : res[i].sentiment_label # "NEUTRAL")
    IN  [k \in DOMAIN kept |->
            [ review_id |-> frame[kept[k]].review_id, bank |-> frame[kept[k]].bank,
              review |-> frame[kept[k]].review, rating |-> frame[kept[k]].rating,
              date_ok |-> frame[kept[k]].date_ok, source |-> frame[kept[k]].source,
              sentiment_label |-> res[kept[k]].sentiment_label,
              sentiment_score |-> res[kept[k]].sentiment_score,
              positive_score |-> res[kept[k]].positive_score,
              negative_score |-> res[kept[k]].negative_score ]]
ScoredFrame(frame, res) ==
    [i \in DOMAIN frame |->
        [ review_id |-> frame[i].review_id, bank |-> frame[i].bank,
          review |-> frame[i].review, rating |-> frame[i].rating,
          date_ok |-> frame[i].date_ok, source |-> frame[i].source,
          sentiment_label |-> res[i].sentiment_label,
          sentiment_score |-> res[i].sentiment_score,
          positive_score |-> res[i].positive_score,
          negative_score |-> res[i].negative_score ]]

\* annotate_reviews_with_themes with the default catalog
AnnotatedFrame(frame) ==
    [i \in DOMAIN frame |->
        [ review_id |-> frame[i].review_id, bank |-> frame[i].bank,
          review |-> frame[i].review, rating |-> frame[i].rating,
          date_ok |-> frame[i].date_ok, source |-> frame[i].source,
          sentiment_label |-> frame[i].sentiment_label,
          sentiment_score |-> frame[i].sentiment_score,
          positive_score |-> frame[i].positive_score,
          negative_score |-> frame[i].negative_score,
          themes |-> DetectThemes(DEFAULT_THEME_KEYWORDS, frame[i].review) ]]

\* _aggregate_sentiment: one row per bank and rating that has reviews
AggregateSentimentMutByBank(frame) ==
    LET group(bank) == SelectSeq(frame, LAMBDA r : r.bank = bank)
        present == SelectSeq(BankOrder, LAMBDA bank : group(bank) # <<>>)
    IN  [k \in DOMAIN present |->
            [ bank |-> present[k],
              rating |-> group(present[k])[1].rating,
              sentiment_sum |-> SumOf(group(present[k]), "sentiment_score"),
              positive_count |->
                  Len(SelectSeq(group(present[k]),
                                LAMBDA r : r.sentiment_label = "POSITIVE")),
              negative_count |->
                  Len(SelectSeq(group(present[k]),
                                LAMBDA r : r.sentiment_label = "NEGATIVE")),
              review_count |-> Len(group(present[k])) ]]
AggregateSentiment(frame) ==
    LET keys == [k \in 1..(5 * Len(BankOrder)) |->
                    [bank |-> BankOrder[((k - 1) \div 5) + 1],
                     rating |-> ((k - 1) % 5) + 1]]
        group(key) == SelectSeq(frame,
                          LAMBDA r : r.bank = key.bank /\ r.rating = key.rating)
        present == SelectSeq(keys, LAMBDA key : group(key) # <<>>)
    IN  [k \in DOMAIN present |->
            [ bank |-> present[k].bank,
              rating |-> present[k].rating,
              sentiment_sum |-> SumOf(group(present[k]), "sentiment_score"),
              positive_count |->
                  Len(SelectSeq(group(present[k]),
                                LAMBDA r : r.sentiment_label = "POSITIVE")),
              negative_count |->
                  Len(SelectSeq(group(present[k]),
                                LAMBDA r : r.sentiment_label = "NEGATIVE")),
              review_count |-> Len(group(present[k])) ]]

\* a pipeline with its analyzer (neutral_threshold left at 0.1) and the raw
\* file it is run on
RunInit ==
    /\ raw_file \in RawFiles
    /\ r_pc = "start"
    /\ clean_df = NoValue
    /\ scored_df = NoValue
    /\ annotated_df = NoValue
    /\ theme_summary = NoValue
    /\ sentiment_summary = NoValue
    /\ written = <<>>
    /\ warned = FALSE
    /\ r_error = "none"
    /\ texts = <<>>
    /\ neutral_threshold = 10
    /\ batch_size \in 1..MaxBatch
    /\ s_pc = "idle"
    /\ cleaned_texts = <<>>
    /\ start = 0
    /\ outputs = <<>>
    /\ results = NoValue
    /\ calls = <<>>
    /\ classifier \in Classifiers
    /\ prev = NoValue
    /\ failed = FALSE

RunRaises(error) ==
    /\ r_pc' = "failed"
    /\ r_error' = error

\* preprocessor.load_data() returns True
RunLoad ==
    /\ r_pc = "start"
    /\ raw_file.readable
    /\ r_pc' = "loaded"
    /\ UNCHANGED <<notRunVars, raw_file, warned, clean_df, scored_df, annotated_df,
                   theme_summary, sentiment_summary, written, r_error>>

\* preprocessor.load_data() returns False
RunLoadRaises ==
    /\ r_pc = "start"
    /\ ~raw_file.readable
    /\ RunRaises("FileNotFoundError")
    /\ UNCHANGED <<notRunVars, raw_file, warned, clean_df, scored_df, annotated_df,
                   theme_summary, sentiment_summary, written>>

\* preprocessor.preprocess_data() returns the cleaned frame
RunPreprocess ==
    /\ r_pc = "loaded"
    /\ raw_file.required
    /\ clean_df' = CleanReviews(raw_file.columns, raw_file.rows,
                               {"review_id", "bank_code", "user_name"} \cap raw_file.columns)
    /\ r_pc' = "cleaned"
    /\ UNCHANGED <<notRunVars, raw_file, warned, scored_df, annotated_df,
                   theme_summary, sentiment_summary, written, r_error>>

\* preprocessor.preprocess_data() returns None: a required column is missing
RunPreprocessRaises ==
    /\ r_pc = "loaded"
    /\ ~raw_file.required
    /\ RunRaises("RuntimeError")
    /\ UNCHANGED <<notRunVars, raw_file, warned, clean_df, scored_df, annotated_df,
                   theme_summary, sentiment_summary, written>>

\* score_dataframe calls score_texts on the review column
RunScore ==
    /\ r_pc = "cleaned"
    /\ r_pc' = "scoring"
    /\ texts' = [i \in DOMAIN clean_df |-> Str(clean_df[i].review)]
    /\ cleaned_texts' = CleanTexts(texts')
    /\ s_pc' = "loop"
    /\ start' = 0
    /\ outputs' = <<>>
    /\ results' = NoValue
    /\ calls' = <<>>
    /\ failed' = FALSE
    /\ UNCHANGED <<themeVars, insightVars, preprocessVars, scrapeVars, batch_size,
                   neutral_threshold, classifier, prev,
                   raw_file, warned, clean_df, scored_df, annotated_df,
                   theme_summary, sentiment_summary, written, r_error>>

\* a classifier call raised: score_texts, score_dataframe and run are left
RunScoreRaises ==
    /\ r_pc = "scoring"
    /\ s_pc = "raised"
    /\ RunRaises("classifier")
    /\ UNCHANGED <<notRunVars, raw_file, warned, clean_df, scored_df, annotated_df,
                   theme_summary, sentiment_summary, written>>

\* coverage = len(scored_df) / len(clean_df); if coverage < 0.9
CoverageBelowKpiMutInverted(scored_count, input_count) ==
    10 * scored_count > 9 * input_count
CoverageBelowKpi(scored_count, input_count) ==
    10 * scored_count < 9 * input_count

\* score_texts returned: the scored frame, the coverage of a frame with
\* rows and the warning
RunScored ==
    /\ r_pc = "scoring"
    /\ s_pc = "done"
    /\ Len(clean_df) > 0
    /\ scored_df' = ScoredFrame(clean_df, results)
    /\ warned' = CoverageBelowKpi(Len(scored_df'), Len(clean_df))
    /\ r_pc' = "scored"
    /\ UNCHANGED <<notRunVars, raw_file, clean_df, annotated_df,
                   theme_summary, sentiment_summary, written, r_error>>

\* score_texts returned for a frame without rows: the coverage divides by
\* len(clean_df)
RunCoverageRaises ==
    /\ r_pc = "scoring"
    /\ s_pc = "done"
    /\ Len(clean_df) = 0
    /\ scored_df' = ScoredFrame(clean_df, results)
    /\ RunRaises("ZeroDivisionError")
    /\ UNCHANGED <<notRunVars, raw_file, warned, clean_df, annotated_df,
                   theme_summary, sentiment_summary, written>>

\* annotate_reviews_with_themes(scored_df)
RunAnnotateMutWrites ==
    /\ r_pc = "scored"
    /\ annotated_df' = AnnotatedFrame(scored_df)
    /\ written' = Append(written, "scored_reviews")
    /\ r_pc' = "annotated"
    /\ UNCHANGED <<notRunVars, raw_file, warned, clean_df, scored_df,
                   theme_summary, sentiment_summary, r_error>>
RunAnnotate ==
    /\ r_pc = "scored"
    /\ annotated_df' = AnnotatedFrame(scored_df)
    /\ r_pc' = "annotated"
    /\ UNCHANGED <<notRunVars, raw_file, warned, clean_df, scored_df,
                   theme_summary, sentiment_summary, written, r_error>>

\* summarize_themes(annotated_df), every TF-IDF call returning
RunSummarizeMutWrites ==
    /\ r_pc = "annotated"
    /\ theme_summary' = SummarizeThemes(annotated_df)
    /\ written' = Append(written, "theme_summary")
    /\ r_pc' = "summarized"
    /\ UNCHANGED <<notRunVars, raw_file, warned, clean_df, scored_df, annotated_df,
                   sentiment_summary, r_error>>
RunSummarize ==
    /\ r_pc = "annotated"
    /\ theme_summary' = SummarizeThemes(annotated_df)
    /\ r_pc' = "summarized"
    /\ UNCHANGED <<notRunVars, raw_file, warned, clean_df, scored_df, annotated_df,
                   sentiment_summary, written, r_error>>

\* summarize_themes(annotated_df), a TF-IDF call (vectorizer.fit_transform
\* in extract_keywords_by_bank) raising
RunSummarizeRaises ==
    /\ r_pc = "annotated"
    /\ RunRaises("tfidf")
    /\ UNCHANGED <<notRunVars, raw_file, warned, clean_df, scored_df, annotated_df,
                   theme_summary, sentiment_summary, written>>

\* self._aggregate_sentiment(scored_df)
RunAggregate ==
    /\ r_pc = "summarized"
    /\ sentiment_summary' = AggregateSentiment(scored_df)
    /\ r_pc' = "aggregated"
    /\ UNCHANGED <<notRunVars, raw_file, warned, clean_df, scored_df, annotated_df,
                   theme_summary, written, r_error>>

\* the outputs in the order run writes them, and where run is before each
Outputs == <<"scored_reviews", "sentiment_summary", "theme_summary">>
BeforeWrite == <<"aggregated", "wrote_scored", "wrote_sentiment">>
AfterWrite == <<"wrote_scored", "wrote_sentiment", "returned">>

\* one to_csv of run (the first one after os.makedirs); after the last one
\* run returns the three paths
RunWrite(k) ==
    /\ r_pc = BeforeWrite[k]
    /\ written' = Append(written, Outputs[k])
    /\ r_pc' = AfterWrite[k]
    /\ UNCHANGED <<notRunVars, raw_file, warned, clean_df, scored_df, annotated_df,
                   theme_summary, sentiment_summary, r_error>>

\* os.makedirs or a to_csv raises
RunWriteRaises(k) ==
    /\ r_pc = BeforeWrite[k]
    /\ RunRaises("OSError")
    /\ UNCHANGED <<notRunVars, raw_file, warned, clean_df, scored_df, annotated_df,
                   theme_summary, sentiment_summary, written>>

RunNext ==
    \/ RunLoad
    \/ RunLoadRaises
    \/ RunPreprocess
    \/ RunPreprocessRaises
    \/ RunScore
    \/ ClassifyBatch
    \/ ClassifierRaises
    \/ ScoreReturn
    \/ RunScoreRaises
    \/ RunScored
    \/ RunCoverageRaises
    \/ RunAnnotate
    \/ RunSummarize
    \/ RunSummarizeRaises
    \/ RunAggregate
    \/ \E k \in DOMAIN Outputs : RunWrite(k)
    \/ \E k \in DOMAIN Outputs : RunWriteRaises(k)

---------------------------------------------------------------------------
(* DataPreprocessor: src/src/preprocessor.py *)

\* "ab c", "ab  c" and " ab "
AbCText == <<"a","b"," ","c">>
AbCWideText == <<"a","b"," "," ","c">>
AbPaddedText == <<" ","a","b"," ">>

\* the rows the frames of the preprocessor are made of: the same review
\* under two ids, one id on two reviews, a review that is short once
\* trimmed, ratings 6 and 0, a date that cannot be parsed, a missing bank and
\* a missing review
CleanRowPool ==
    { RawRow(1, "BankA", Str(AbCText), 5, TRUE),
      RawRow(2, "BankA", Str(AbCWideText), 5, TRUE),
      RawRow(1, "BankA", Str(GoodText), 4, TRUE),
      RawRow(3, "BankA", Str(AbPaddedText), 3, TRUE),
      RawRow(4, "BankB", Str(GoodText), 6, TRUE),
      RawRow(5, "BankB", Str(GoodText), 0, TRUE),
      RawRow(6, "BankB", Str(GoodText), 2, FALSE),
      RawRow(7, NoBank, Str(GoodText), 1, TRUE),
      RawRow(8, "BankB", NotAStr, 3, TRUE) }

\* a row of a frame that has no review_id column
WithoutId(row) == [col \in DOMAIN row \ {"review_id"} |-> row[col]]

\* the frames the methods are called on, with and without a review_id column
CleanFrames ==
    LET lists == UNION {[1..n -> CleanRowPool] : n \in 0..MaxRawRows}
    IN  {[columns |-> required \cup {"review_id"}, rows |-> rows] : rows \in lists}
        \cup {[columns |-> required,
               rows |-> [i \in DOMAIN rows |-> WithoutId(rows[i])]] : rows \in lists}

PreprocessInit ==
    /\ p_df \in CleanFrames
    /\ p_keep = {}
    /\ p_pc = "new"
    /\ p_out = NoValue

\* DataPreprocessor().remove_duplicates(df)
remove_duplicates ==
    /\ p_pc = "new"
    /\ p_out' = RemoveDuplicates(p_df.columns, p_df.rows)
    /\ p_pc' = "remove_duplicates"
    /\ UNCHANGED <<notPreprocessVars, p_df, p_keep>>

\* DataPreprocessor().validate_ratings(df)
validate_ratings ==
    /\ p_pc = "new"
    /\ p_out' = ValidateRatings(p_df.rows)
    /\ p_pc' = "validate_ratings"
    /\ UNCHANGED <<notPreprocessVars, p_df, p_keep>>

\* DataPreprocessor().filter_review_length(df)
filter_review_length ==
    /\ p_pc = "new"
    /\ p_out' = FilterReviewLength(p_df.rows)
    /\ p_pc' = "filter_review_length"
    /\ UNCHANGED <<notPreprocessVars, p_df, p_keep>>

\* DataPreprocessor().normalize_dates(df)
normalize_dates ==
    /\ p_pc = "new"
    /\ p_out' = NormalizeDates(p_df.rows)
    /\ p_pc' = "normalize_dates"
    /\ UNCHANGED <<notPreprocessVars, p_df, p_keep>>

\* DataPreprocessor().clean_reviews(df, keep_columns)
clean_reviews(keep_columns) ==
    /\ p_pc = "new"
    /\ p_keep' = keep_columns
    /\ p_out' = CleanReviews(p_df.columns, p_df.rows, keep_columns)
    /\ p_pc' = "clean_reviews"
    /\ UNCHANGED <<notPreprocessVars, p_df>>

PreprocessNext ==
    \/ remove_duplicates
    \/ validate_ratings
    \/ filter_review_length
    \/ normalize_dates
    \/ \E keep_columns \in {{}, {"review_id"}} : clean_reviews(keep_columns)

---------------------------------------------------------------------------
(* PlayStoreScraper.scrape_reviews: src/src/scraper.py *)

\* two of the APP_IDS of src/src/config.py
AppIds == {"com.combanketh.mobilebanking", "com.boa.boaMobileBanking"}

\* what reviews(app_id, ..., count=count) may return on an attempt: up to
\* count reviews, told apart by the app and the attempt that fetched them
Fetched(app_id, count, attempt) ==
    { [i \in 1..n |-> [reviewId |-> <<app_id, attempt, i>>]] :
        n \in 0..Min(count, MaxFetched) }

ScrapeInit ==
    /\ sc_app_id \in AppIds
    /\ sc_count \in 0..MaxFetched
    /\ sc_max_retries \in 0..MaxRetries
    /\ sc_attempt = 0
    /\ sc_pc = "loop"
    /\ sc_result = <<>>
    /\ sc_events = <<>>

\* the sleep after a failed attempt: if attempt < self.max_retries - 1
SleepsAfterMutAlways(attempt, max_retries) == attempt < max_retries
SleepsAfter(attempt, max_retries) == attempt < max_retries - 1

\* an iteration whose reviews(...) call returns: scrape_reviews returns the
\* result
FetchReturns ==
    /\ sc_pc = "loop"
    /\ sc_attempt < sc_max_retries
    /\ \E result \in Fetched(sc_app_id, sc_count, sc_attempt) :
          sc_result' = result
    /\ sc_events' = Append(sc_events, "fetched")
    /\ sc_pc' = "returned"
    /\ UNCHANGED <<notScrapeVars, sc_app_id, sc_count, sc_max_retries, sc_attempt>>

\* an iteration whose reviews(...) call raises an Exception: the handler
\* sleeps unless the attempt was the last, and the loop goes on
FetchRaises ==
    /\ sc_pc = "loop"
    /\ sc_attempt < sc_max_retries
    /\ sc_events' = IF SleepsAfter(sc_attempt, sc_max_retries)
                    THEN sc_events \o <<"failed", "sleep">>
                    ELSE Append(sc_events, "failed")
    /\ sc_attempt' = sc_attempt + 1
    /\ UNCHANGED <<notScrapeVars, sc_app_id, sc_count, sc_max_retries, sc_pc,
                   sc_result>>

\* range(self.max_retries) is exhausted: return []
ReturnEmpty ==
    /\ sc_pc = "loop"
    /\ sc_attempt >= sc_max_retries
    /\ sc_result' = <<>>
    /\ sc_pc' = "returned"
    /\ UNCHANGED <<notScrapeVars, sc_app_id, sc_count, sc_max_retries, sc_attempt,
                   sc_events>>

ScrapeNext ==
    \/ FetchReturns
    \/ FetchRaises
    \/ ReturnEmpty

---------------------------------------------------------------------------
(* Specifications: one per component, the other components idle *)

ScoreIdle ==
    /\ texts = <<>>
    /\ neutral_threshold = 10
    /\ batch_size = 1
    /\ s_pc = "idle"
    /\ cleaned_texts = <<>>
    /\ start = 0
    /\ outputs = <<>>
    /\ results = NoValue
    /\ calls = <<>>
    /\ classifier = 0
    /\ prev = NoValue
    /\ failed = FALSE

ThemeIdle ==
    /\ theme_keywords = <<>>
    /\ df = <<>>
    /\ t_pc = "idle"
    /\ annotated = NoValue
    /\ summary_df = NoValue

InsightIdle ==
    /\ reviews_df = <<>>
    /\ theme_summary_df = <<>>
    /\ i_pc = "idle"
    /\ extracted = NoValue
    /\ insights = NoValue
    /\ recommendations = NoValue

RunIdle ==
    /\ raw_file = Unreadable
    /\ r_pc = "idle"
    /\ clean_df = NoValue
    /\ scored_df = NoValue
    /\ annotated_df = NoValue
    /\ theme_summary = NoValue
    /\ sentiment_summary = NoValue
    /\ written = <<>>
    /\ warned = FALSE
    /\ r_error = "none"

PreprocessIdle ==
    /\ p_df = [columns |-> {}, rows |-> <<>>]
    /\ p_keep = {}
    /\ p_pc = "idle"
    /\ p_out = NoValue

ScrapeIdle ==
    /\ sc_app_id = ""
    /\ sc_count = 0
    /\ sc_max_retries = 0
    /\ sc_attempt = 0
    /\ sc_pc = "idle"
    /\ sc_result = <<>>
    /\ sc_events = <<>>

SpecScoreInit == ScoreInit /\ ThemeIdle /\ InsightIdle /\ RunIdle /\ PreprocessIdle
                 /\ ScrapeIdle
SpecScore == SpecScoreInit /\ [][ScoreNext]_vars

SpecThemesInit == ThemeInit /\ ScoreIdle /\ InsightIdle /\ RunIdle /\ PreprocessIdle
                 /\ ScrapeIdle
SpecThemes == SpecThemesInit /\ [][ThemeNext]_vars

SpecInsightsInit == InsightInit /\ ScoreIdle /\ ThemeIdle /\ RunIdle /\ PreprocessIdle
                 /\ ScrapeIdle
SpecInsights == SpecInsightsInit /\ [][InsightNext]_vars

SpecRunInit == RunInit /\ ThemeIdle /\ InsightIdle /\ PreprocessIdle
                 /\ ScrapeIdle
SpecRun == SpecRunInit /\ [][RunNext]_vars

SpecPreprocessInit ==
    PreprocessInit /\ ScoreIdle /\ ThemeIdle /\ InsightIdle /\ RunIdle /\ ScrapeIdle
SpecPreprocess == SpecPreprocessInit /\ [][PreprocessNext]_vars

\* scrape_reviews runs on: a call of reviews(...) returns or raises, and
\* time.sleep(5) returns
SpecScrapeInit ==
    /\ ScrapeInit /\ ScoreIdle /\ ThemeIdle /\ InsightIdle /\ RunIdle
    /\ PreprocessIdle
SpecScrape == SpecScrapeInit /\ [][ScrapeNext]_vars /\ WF_vars(ScrapeNext)

---------------------------------------------------------------------------
(* Claims about score_texts, checked under SpecScore *)

NeutralZero(r) ==
    /\ r.sentiment_label = "NEUTRAL"
    /\ r.sentiment_score = 0
    /\ r.positive_score = 0
    /\ r.negative_score = 0

\* C1: an item that is empty, whitespace-only or not a string is never
\* handed to the classifier, and its result is NEUTRAL with scores 0, 0, 0.
C1_EmptyNeverClassified ==
    /\ \A c \in DOMAIN calls : <<>> \notin Range(calls[c])
    /\ s_pc = "done" =>
          \A i \in DOMAIN results :
              cleaned_texts[i] = <<>> => NeutralZero(results[i])

\* C2: score_texts returns one result per input text, the i-th being the
\* score of the i-th text, whatever the batch size.
C2_OneResultPerTextInOrder ==
    s_pc = "done" =>
        /\ Len(results) = Len(texts)
        /\ \A i \in DOMAIN texts :
              results[i] = ScoreItem(cleaned_texts[i],
                                     ClassifierAnswer(classifier, cleaned_texts[i]),
                                     neutral_threshold)

C2_Witness ==
    /\ s_pc = "done"
    /\ Len(texts) = 3
    /\ batch_size = 2
    /\ Len(calls) = 2
    /\ Len(calls[2]) = 1
    /\ cleaned_texts[1] # cleaned_texts[2]
    /\ cleaned_texts[2] # cleaned_texts[3]
    /\ results[2] # results[3]

\* C3: two calls over the same texts with different batch sizes return the
\* same results, item by item.
C3_BatchInvariance ==
    (s_pc = "done" /\ prev # NoValue) => results = prev.results

C3_Witness ==
    /\ s_pc = "done"
    /\ prev # NoValue
    /\ prev.batch_size = 1
    /\ batch_size = 2
    /\ Len(texts) = 3
    /\ results[1] # results[2]
    /\ results[2] # results[3]

\* C4: in every result the signed score is positive_score - negative_score,
\* and the label is POSITIVE iff score > t, NEGATIVE iff score < -t, and
\* NEUTRAL otherwise.
C4_LabelMatchesScore ==
    s_pc = "done" =>
        \A i \in DOMAIN results :
            LET r == results[i]
                t == neutral_threshold
            IN  /\ r.sentiment_score = r.positive_score - r.negative_score
                /\ r.sentiment_label \in {"POSITIVE", "NEGATIVE", "NEUTRAL"}
                /\ r.sentiment_label = "POSITIVE" <=> r.sentiment_score > t
                /\ r.sentiment_label = "NEGATIVE" <=> r.sentiment_score < -t
                /\ r.sentiment_label = "NEUTRAL" <=>
                      (r.sentiment_score <= t /\ r.sentiment_score >= -t)

C4_Witness ==
    /\ s_pc = "done"
    /\ \E i, j, k \in DOMAIN results :
          /\ results[i].sentiment_score = -neutral_threshold
          /\ results[i].sentiment_label = "NEUTRAL"
          /\ results[j].sentiment_label = "POSITIVE"
          /\ results[k].sentiment_label = "NEGATIVE"

\* C5: when a classifier call raises, score_texts is left through the
\* error: nothing is returned, nothing more runs, and no batch is handed to
\* the classifier a second time.
C5_ClassifierErrorPropagates ==
    /\ failed => (s_pc = "raised" /\ results = NoValue)
    /\ s_pc = "raised" => ~ENABLED (ClassifyBatch \/ ClassifierRaises \/ ScoreReturn)
    /\ \A i \in DOMAIN calls : (i - 1) * batch_size < Len(texts)

C5_Witness ==
    /\ failed
    /\ s_pc = "raised"
    /\ Len(calls) = 2
    /\ Len(outputs) = 2
    /\ results = NoValue

---------------------------------------------------------------------------
(* Claims about annotate_reviews_with_themes, checked under SpecThemes *)

\* The normalized text, stated without the regular expressions: the maximal
\* runs of [a-z0-9] of the lower-cased text, joined by single spaces.
NormalizedText(s) ==
    LET low == Lower(s)
        isw(i) == low[i] \in AlnumLower
        kept == {i \in DOMAIN low : isw(i)}
                  \cup {i \in DOMAIN low :
                          /\ ~isw(i)
                          /\ i > 1 /\ isw(i - 1)
                          /\ \E j \in DOMAIN low : j > i /\ isw(j)}
        nth(k) == CHOOSE i \in kept : Cardinality({j \in kept : j < i}) = k - 1
    IN  [k \in 1..Cardinality(kept) |-> IF isw(nth(k)) THEN low[nth(k)] ELSE " "]

\* The normalization in the words "non-alphanumerics removed": the characters
\* outside [a-z0-9] and whitespace are deleted, then whitespace is collapsed.
NormalizedByRemoval(s) ==
    Strip(CollapseWhitespace(
        SelectSeq(Lower(s), LAMBDA c : c \in AlnumLower \/ c \in WhitespaceChars),
        FALSE))

CatalogThemes == {theme_keywords[i].theme : i \in DOMAIN theme_keywords}
KeywordsOf(theme) ==
    UNION {Range(theme_keywords[i].keywords) :
              i \in {j \in DOMAIN theme_keywords : theme_keywords[j].theme = theme}}

\* C7: every annotated review has a non-empty themes list, which is exactly
\* ["Other Feedback"] iff no catalog keyword is a substring of the normalized
\* text; the sentinel never accompanies a catalog theme.
C7_ThemeTotality ==
    t_pc = "annotated" =>
        \A i \in DOMAIN annotated :
            LET th == annotated[i].themes
                n == NormalizedText(df[i].review.s)
                hit == \E t \in CatalogThemes : \E kw \in KeywordsOf(t) : Contains(n, kw)
            IN  /\ Len(th) >= 1
                /\ th = <<OtherFeedback>> <=> ~hit
                /\ OtherFeedback \in Range(th) => Len(th) = 1

C7_Witness ==
    /\ t_pc = "annotated"
    /\ \E i, j \in DOMAIN annotated :
          /\ annotated[i].themes = <<OtherFeedback>>
          /\ Len(annotated[j].themes) = 2

\* does the themes list carry exactly the themes with a keyword in text n,
\* once each, in ascending order
CarriesMatchedSorted(th, n) ==
    /\ \A t \in CatalogThemes :
          t \in Range(th) <=> \E kw \in KeywordsOf(t) : Contains(n, kw)
    /\ \A a, b \in DOMAIN th : a < b => StrLess(th[a], th[b])

\* C8 as stated: a theme is carried iff one of its keywords is a substring
\* of the text lower-cased, with the non-alphanumerics removed and whitespace
\* collapsed; the carried themes are sorted and without duplicates.
C8_MatchOnTextWithRemovedChars ==
    t_pc = "annotated" =>
        \A i \in DOMAIN annotated :
            CarriesMatchedSorted(annotated[i].themes,
                                 NormalizedByRemoval(df[i].review.s))

\* C8 amended: a theme is carried iff one of its keywords is a substring of
\* the text lower-cased, with every non-alphanumeric replaced by a space and
\* whitespace collapsed (no word boundary needed); the carried themes are
\* sorted and without duplicates.
C8_MatchOnTextWithSpacedChars ==
    t_pc = "annotated" =>
        \A i \in DOMAIN annotated :
            CarriesMatchedSorted(annotated[i].themes, NormalizedText(df[i].review.s))

C8_Witness ==
    /\ t_pc = "annotated"
    /\ \E i, j, k \in DOMAIN annotated :
          /\ df[i].review.s = ScenarioAText
          /\ annotated[i].themes = <<ReliabilityStability, TransactionPerformance>>
          /\ df[j].review.s = DiscardedText
          /\ annotated[j].themes = <<FeatureRequests>>
          /\ df[k].review.s = LogInText
          /\ annotated[k].themes = <<OtherFeedback>>

---------------------------------------------------------------------------
(* Claims about extract_drivers_pain_points and analyze_all_banks, checked
   under SpecInsights *)

\* the lists returned for the banks that were analysed in this state
Returned ==
    IF i_pc = "extracted" THEN {extracted}
    ELSE IF i_pc \in {"analyzed", "recommended"} THEN Range(insights)
    ELSE {}

\* the reviews of a bank that carry a theme
Carrying(bank, theme) ==
    {i \in DOMAIN reviews_df :
        /\ reviews_df[i].bank = bank
        /\ \E k \in DOMAIN reviews_df[i].themes : reviews_df[i].themes[k] = theme}

\* the total of a column over the reviews I
RECURSIVE TotalBetween(_, _, _, _)
TotalBetween(I, field, lo, hi) ==
    IF lo > hi THEN 0
    ELSE IF lo = hi THEN (IF lo \in I THEN reviews_df[lo][field] ELSE 0)
    ELSE LET mid == (lo + hi) \div 2
         IN  TotalBetween(I, field, lo, mid) + TotalBetween(I, field, mid + 1, hi)
Total(I, field) == TotalBetween(I, field, 1, Len(reviews_df))

\* the mean of values that add up to sum, n of them, against num / den
MeanAbove(sum, n, num, den) == sum * den > num * n
MeanBelow(sum, n, num, den) == sum * den < num * n

ListedIn(list, theme) == \E i \in DOMAIN list : list[i].theme = theme

\* an entry reports the evidence of its subset
ReportsSubset(entry, I) ==
    /\ entry.evidence_count = Cardinality(I)
    /\ entry.rating_sum = Total(I, "rating")
    /\ entry.sentiment_sum = Total(I, "sentiment_score")

\* C9: for every summary row of an analysed bank whose theme is not "Other
\* Feedback", over the reviews of the bank that carry the theme: the theme is
\* a driver iff the mean sentiment is above 0.1 and the mean rating is at
\* least 3.5, a pain point iff the mean sentiment is below -0.1 and the mean
\* rating is at most 3.0, and the entry reports the size and the means of
\* exactly that subset; a theme no review carries is in neither list.
C9_DriverPainPointRule ==
    \A res \in Returned : \A r \in DOMAIN theme_summary_df :
        LET row == theme_summary_df[r]
            I == Carrying(res.bank, row.theme)
            n == Cardinality(I)
            sent == Total(I, "sentiment_score")
            rate == Total(I, "rating")
        IN  (row.bank = res.bank /\ row.theme # OtherFeedback) =>
              /\ ListedIn(res.drivers, row.theme) <=>
                    (n > 0 /\ MeanAbove(sent, n, 10, 1) /\ ~MeanBelow(rate, n, 35, 10))
              /\ ListedIn(res.pain_points, row.theme) <=>
                    (n > 0 /\ MeanBelow(sent, n, -10, 1) /\ ~MeanAbove(rate, n, 3, 1))
              /\ \A i \in DOMAIN res.drivers :
                    res.drivers[i].theme = row.theme => ReportsSubset(res.drivers[i], I)
              /\ \A i \in DOMAIN res.pain_points :
                    res.pain_points[i].theme = row.theme =>
                        ReportsSubset(res.pain_points[i], I)

\* the 50 reviews of mean rating 4.2 and mean sentiment 0.35 make their
\* theme a driver and not a pain point
C9_Witness ==
    /\ i_pc = "analyzed"
    /\ reviews_df = ScenarioBReviews
    /\ Len(insights) = 1
    /\ insights[1].pain_points = <<>>
    /\ Len(insights[1].drivers) = 1
    /\ insights[1].drivers[1].theme = CustomerSupportCommunication
    /\ insights[1].drivers[1].evidence_count = 50
    /\ insights[1].drivers[1].rating_sum * 10 = 42 * 50
    /\ insights[1].drivers[1].sentiment_sum = 35 * 50

\* C10: no theme is in both the drivers and the pain points returned for a
\* bank.
C10_DriverPainExclusive ==
    \A res \in Returned :
        {res.drivers[i].theme : i \in DOMAIN res.drivers}
            \cap {res.pain_points[i].theme : i \in DOMAIN res.pain_points} = {}

\* a bank with a driver and a pain point, from reviews that carry both themes
C10_Witness ==
    \E res \in Returned :
        /\ res.drivers # <<>>
        /\ res.pain_points # <<>>
        /\ \E i \in DOMAIN reviews_df :
              /\ reviews_df[i].bank = res.bank
              /\ res.drivers[1].theme \in Range(reviews_df[i].themes)
              /\ res.pain_points[1].theme \in Range(reviews_df[i].themes)

---------------------------------------------------------------------------
(* Claims about SentimentThemePipeline.run, checked under SpecRun *)

\* C6: when a classifier call or a TF-IDF call raises during run, run is
\* left with that error, it takes no further step, and none of the three
\* outputs has been written.
C6_AllOrNothing ==
    /\ s_pc = "raised" =>
          /\ r_pc \in {"scoring", "failed"}
          /\ r_pc = "failed" => r_error = "classifier"
          /\ written = <<>>
    /\ r_error \in {"classifier", "tfidf"} =>
          /\ r_pc = "failed"
          /\ written = <<>>
          /\ ~ENABLED RunNext
    /\ r_error = "classifier" => s_pc = "raised"

\* a run whose classifier calls all returned and whose TF-IDF call raised:
\* the reviews are scored and tagged, and nothing is written
C6_Witness ==
    /\ r_pc = "failed"
    /\ r_error = "tfidf"
    /\ Len(calls) >= 2
    /\ Len(annotated_df) >= 2
    /\ written = <<>>

\* a run left by a classifier call that raised after another had returned
C6_WitnessClassifier ==
    /\ r_pc = "failed"
    /\ r_error = "classifier"
    /\ Len(calls) >= 2
    /\ written = <<>>

---------------------------------------------------------------------------
(* Claims about generate_recommendations, checked under SpecInsights *)

\* the pain points a recommendation of a bank for a theme can come from
PainPointsOf(rec) ==
    {pp \in UNION {Range(TopPainPoints(insights[i].pain_points)) :
                      i \in {j \in DOMAIN insights : insights[j].bank = rec.bank}} :
        pp.theme = rec.theme}

\* C11: every recommendation has priority High iff its pain point has a
\* mean sentiment below -0.7 and more than 50 reviews behind it, otherwise
\* Medium iff the mean sentiment is below -0.5, otherwise Low; a mean of -0.8
\* gives High with 120 reviews and Medium with 50.
C11_PriorityRule ==
    i_pc = "recommended" =>
      /\ \A r \in DOMAIN recommendations :
            LET rec == recommendations[r]
            IN  /\ PainPointsOf(rec) # {}
                /\ \A pp \in PainPointsOf(rec) :
                      LET strong == MeanBelow(pp.sentiment_sum, pp.evidence_count, -70, 1)
                                    /\ pp.evidence_count > 50
                          medium == MeanBelow(pp.sentiment_sum, pp.evidence_count, -50, 1)
                      IN  /\ rec.priority = "High" <=> strong
                          /\ rec.priority = "Medium" <=> (~strong /\ medium)
                          /\ rec.priority = "Low" <=> (~strong /\ ~medium)
      /\ reviews_df = UniformReviews(120, -80) =>
            Len(recommendations) = 1 /\ recommendations[1].priority = "High"
      /\ reviews_df = UniformReviews(50, -80) =>
            Len(recommendations) = 1 /\ recommendations[1].priority = "Medium"

\* the pain point of mean sentiment -0.8 with 120 reviews behind it got a
\* recommendation of priority High
C11_Witness ==
    /\ i_pc = "recommended"
    /\ reviews_df = UniformReviews(120, -80)
    /\ insights[1].pain_points[1].evidence_count = 120
    /\ insights[1].pain_points[1].sentiment_sum = -80 * 120
    /\ recommendations[1].priority = "High"
    /\ recommendations[1].theme = TransactionPerformance

\* the themes that have an entry in the lookup table
TableThemes ==
    { ReliabilityStability, TransactionPerformance, AccountAccessIssues,
      CustomerSupportCommunication, UserInterfaceExperience, FeatureRequests }

\* <<i, k>>: pain point k of bank i is among the first three of its bank and
\* its theme is in the table
Eligible ==
    {p \in (DOMAIN insights) \X (1..3) :
        /\ p[2] <= Len(insights[p[1]].pain_points)
        /\ insights[p[1]].pain_points[p[2]].theme \in TableThemes}

PairBefore(p, q) == p[1] < q[1] \/ (p[1] = q[1] /\ p[2] < q[2])

\* C12: the recommendations are, bank after bank and in pain-point order,
\* one for each of the bank's first three pain points whose theme is in the
\* table, and nothing else: none for a theme outside the table, none for a
\* pain point after the third, none for a driver, at most 3 for a bank.
C12_OnePerTopPainPoint ==
    i_pc = "recommended" =>
      /\ Len(recommendations) = Cardinality(Eligible)
      /\ \A p \in Eligible :
            LET r == Cardinality({q \in Eligible : PairBefore(q, p)}) + 1
                pp == insights[p[1]].pain_points[p[2]]
            IN  /\ recommendations[r].bank = insights[p[1]].bank
                /\ recommendations[r].theme = pp.theme
      /\ \A i \in DOMAIN insights :
            /\ Cardinality({r \in DOMAIN recommendations :
                              recommendations[r].bank = insights[i].bank}) <= 3
            /\ \A r \in DOMAIN recommendations :
                  recommendations[r].bank = insights[i].bank =>
                      ~ListedIn(insights[i].drivers, recommendations[r].theme)

\* a bank with four pain points, one of the first three with a theme outside
\* the table, got two recommendations; another bank has a driver and got none
C12_Witness ==
    /\ i_pc = "recommended"
    /\ Len(recommendations) = 2
    /\ \E i, j \in DOMAIN insights :
          /\ Len(insights[i].pain_points) = 4
          /\ \E k \in 1..3 : insights[i].pain_points[k].theme = Fees
          /\ insights[i].pain_points[4].theme \in TableThemes
          /\ insights[j].drivers # <<>>
          /\ insights[j].pain_points = <<>>

---------------------------------------------------------------------------
(* Claims about summarize_themes, checked under SpecThemes *)

\* the rows of the summary for a bank
SummaryRows(bank) == {r \in DOMAIN summary_df : summary_df[r].bank = bank}

\* the annotated reviews of a bank, and those that carry a theme
ReviewsOf(bank) == {i \in DOMAIN annotated : annotated[i].bank = bank}
ReviewsWith(bank, theme) ==
    {i \in ReviewsOf(bank) :
        \E k \in DOMAIN annotated[i].themes : annotated[i].themes[k] = theme}

\* C13: every row of the summary has a coverage_pct between 0 and 100.
C13_CoverageBounds ==
    t_pc = "summarized" =>
      \A r \in DOMAIN summary_df :
          summary_df[r].coverage_pct >= 0 /\ summary_df[r].coverage_pct <= 100 * 100

\* a summary with a theme every review of its bank carries and a theme only
\* some carry
C13_Witness ==
    /\ t_pc = "summarized"
    /\ \E r, q \in DOMAIN summary_df :
          /\ summary_df[r].coverage_pct = 100 * 100
          /\ summary_df[q].coverage_pct > 0
          /\ summary_df[q].coverage_pct < 100 * 100
          /\ Cardinality(ReviewsOf(summary_df[r].bank)) >= 2

\* the banks that have a row in the summary
SummaryBanks == {summary_df[r].bank : r \in DOMAIN summary_df}

RECURSIVE CoverageSum(_)
CoverageSum(R) ==
    IF R = {} THEN 0
    ELSE LET r == CHOOSE x \in R : TRUE
         IN  summary_df[r].coverage_pct + CoverageSum(R \ {r})

\* C14 as stated: for every bank of the summary, the reported coverage_pct
\* values of its rows add up to at least 100.
C14_CoverageSumAtLeast100 ==
    t_pc = "summarized" =>
      \A b \in SummaryBanks : CoverageSum(SummaryRows(b)) >= 100 * 100

\* C14 as amended: for every bank of the summary, the reported coverage_pct
\* values of its rows add up to at least 100 less 0.005 for each of the rows
\* (every value is rounded to two decimals).
C14_CoverageSumUpToRounding ==
    t_pc = "summarized" =>
      \A b \in SummaryBanks :
          2 * CoverageSum(SummaryRows(b)) + Cardinality(SummaryRows(b)) >= 2 * 100 * 100

\* a bank of three reviews with three themes of 33.33 each, and a bank whose
\* review carries two themes of 100 each
C14_Witness ==
    /\ t_pc = "summarized"
    /\ \E b \in SummaryBanks :
          /\ Cardinality(SummaryRows(b)) = 3
          /\ CoverageSum(SummaryRows(b)) = 9999

\* one row for every theme a review of the bank carries, and no other row
OneRowPerCarriedPair ==
    /\ \A r \in DOMAIN summary_df :
          ReviewsWith(summary_df[r].bank, summary_df[r].theme) # {}
    /\ \A i \in DOMAIN annotated : \A k \in DOMAIN annotated[i].themes :
          Cardinality({r \in DOMAIN summary_df :
                          /\ summary_df[r].bank = annotated[i].bank
                          /\ summary_df[r].theme = annotated[i].themes[k]}) = 1

\* C15 as stated: one row for every (bank, theme) pair that a review carries
\* and no other row; the row's coverage_pct is 100 times the number of the
\* bank's reviews with the theme over the number of the bank's reviews.
C15_CoverageExact ==
    t_pc = "summarized" =>
      /\ OneRowPerCarriedPair
      /\ \A r \in DOMAIN summary_df :
            LET with == Cardinality(ReviewsWith(summary_df[r].bank, summary_df[r].theme))
                all == Cardinality(ReviewsOf(summary_df[r].bank))
            IN  summary_df[r].coverage_pct * all = 100 * 100 * with

\* C15 as amended: one row for every (bank, theme) pair that a review carries
\* and no other row; the row's coverage_pct is 100 times the number of the
\* bank's reviews with the theme over the number of the bank's reviews,
\* rounded to two decimals.
C15_CoverageRounded ==
    t_pc = "summarized" =>
      /\ OneRowPerCarriedPair
      /\ \A r \in DOMAIN summary_df :
            LET with == Cardinality(ReviewsWith(summary_df[r].bank, summary_df[r].theme))
                all == Cardinality(ReviewsOf(summary_df[r].bank))
                off == summary_df[r].coverage_pct * all - 100 * 100 * with
            IN  2 * off <= all /\ -2 * off <= all

\* a bank of three reviews: a theme two of them carry is reported at 66.67,
\* a theme one of them carries at 33.33
C15_Witness ==
    /\ t_pc = "summarized"
    /\ \E r, q \in DOMAIN summary_df :
          /\ summary_df[r].bank = summary_df[q].bank
          /\ Cardinality(ReviewsOf(summary_df[r].bank)) = 3
          /\ Cardinality(ReviewsWith(summary_df[r].bank, summary_df[r].theme)) = 2
          /\ summary_df[r].coverage_pct = 6667
          /\ Cardinality(ReviewsWith(summary_df[q].bank, summary_df[q].theme)) = 1
          /\ summary_df[q].coverage_pct = 3333

\* the place of a bank in ascending order
BankRank(bank) == CHOOSE k \in DOMAIN BankOrder : BankOrder[k] = bank

\* C16: the rows of the summary are in ascending order of bank and, within a
\* bank, in descending order of coverage_pct.
C16_SummaryOrder ==
    t_pc = "summarized" =>
      \A r, q \in DOMAIN summary_df :
          r < q =>
            /\ BankRank(summary_df[r].bank) <= BankRank(summary_df[q].bank)
            /\ summary_df[r].bank = summary_df[q].bank =>
                  summary_df[r].coverage_pct >= summary_df[q].coverage_pct

\* the theme met first in the reviews of a bank is not its most frequent
\* one: the summary begins with the most frequent one
C16_Witness ==
    /\ t_pc = "summarized"
    /\ Len(summary_df) >= 2
    /\ summary_df[1].bank = annotated[1].bank
    /\ summary_df[1].bank = summary_df[2].bank
    /\ summary_df[1].theme # annotated[1].themes[1]
    /\ summary_df[2].theme = annotated[1].themes[1]
    /\ summary_df[1].coverage_pct > summary_df[2].coverage_pct

---------------------------------------------------------------------------
(* More claims about extract_drivers_pain_points, checked under SpecInsights *)

\* C17: "Other Feedback" is in neither the drivers nor the pain points of any
\* bank, whatever the mean sentiment and rating of the reviews that carry
\* it, and no recommendation is made for it.
C17_SentinelNeverClassified ==
    /\ \A res \in Returned :
          /\ ~ListedIn(res.drivers, OtherFeedback)
          /\ ~ListedIn(res.pain_points, OtherFeedback)
    /\ i_pc = "recommended" =>
          \A r \in DOMAIN recommendations : recommendations[r].theme # OtherFeedback

\* the summary has an "Other Feedback" row for a bank whose reviews with that
\* theme have a mean sentiment below -0.1 and a mean rating of at most 3.0,
\* and the bank got recommendations
C17_Witness ==
    /\ i_pc = "recommended"
    /\ recommendations # <<>>
    /\ \E r \in DOMAIN theme_summary_df :
          LET row == theme_summary_df[r]
              I == Carrying(row.bank, OtherFeedback)
          IN  /\ row.theme = OtherFeedback
              /\ I # {}
              /\ MeanBelow(Total(I, "sentiment_score"), Cardinality(I), -10, 1)
              /\ ~MeanAbove(Total(I, "rating"), Cardinality(I), 3, 1)
              /\ \E i \in DOMAIN insights : insights[i].bank = row.bank

\* the mean sentiment of entry x is at most that of entry y
MeanAtMost(x, y) ==
    x.sentiment_sum * y.evidence_count <= y.sentiment_sum * x.evidence_count

\* C18: the drivers returned for a bank are in descending order of mean
\* sentiment and the pain points in ascending order.
C18_SortedBySentiment ==
    \A res \in Returned :
        /\ \A i, j \in DOMAIN res.drivers :
              i < j => MeanAtMost(res.drivers[j], res.drivers[i])
        /\ \A i, j \in DOMAIN res.pain_points :
              i < j => MeanAtMost(res.pain_points[i], res.pain_points[j])

\* the position of the first summary row of a bank for a theme
RowOf(bank, theme) ==
    CHOOSE r \in DOMAIN theme_summary_df :
        /\ theme_summary_df[r].bank = bank /\ theme_summary_df[r].theme = theme
        /\ \A q \in 1..(r - 1) :
              ~(theme_summary_df[q].bank = bank /\ theme_summary_df[q].theme = theme)

\* two drivers, or two pain points, of different mean sentiment are
\* returned in the order opposite to that of their summary rows
C18_Witness ==
    \E res \in Returned :
        \/ /\ Len(res.drivers) >= 2
           /\ ~MeanAtMost(res.drivers[1], res.drivers[2])
           /\ RowOf(res.bank, res.drivers[1].theme) > RowOf(res.bank, res.drivers[2].theme)
           /\ Len(res.pain_points) >= 1
        \/ /\ Len(res.pain_points) >= 3
           /\ ~MeanAtMost(res.pain_points[3], res.pain_points[2])
           /\ RowOf(res.bank, res.pain_points[2].theme)
                 > RowOf(res.bank, res.pain_points[3].theme)
           /\ Len(res.drivers) >= 1

\* the reviews of a bank that carry a theme, in the order of the frame
SubsetOf(bank, theme) ==
    LET I == Carrying(bank, theme)
    IN  SelectSeq(reviews_df, LAMBDA r :
            \E i \in I : reviews_df[i] = r /\ r.bank = bank)

\* a text as an example shows it: the first 150 characters and "..." when
\* it is longer than 150 characters, the text itself otherwise
Shown(text) ==
    IF Len(text) <= 150 THEN text
    ELSE [i \in 1..153 |-> IF i <= 150 THEN text[i] ELSE "."]

\* examples are the texts, as shown, of the best reviews of a subset: of
\* min(2, size) distinct reviews such that no review left out has a higher
\* (highest = TRUE) or a lower (highest = FALSE) sentiment than a chosen one
ExamplesOfBest(examples, subset, highest) ==
    \E chosen \in SUBSET (DOMAIN subset) :
        /\ Cardinality(chosen) = IF Len(subset) >= 2 THEN 2 ELSE Len(subset)
        /\ Len(examples) = Cardinality(chosen)
        /\ \A c \in chosen : \A u \in DOMAIN subset \ chosen :
              IF highest
              THEN subset[u].sentiment_score <= subset[c].sentiment_score
              ELSE subset[u].sentiment_score >= subset[c].sentiment_score
        /\ \E order \in [DOMAIN examples -> chosen] :
              /\ \A k, l \in DOMAIN examples : k # l => order[k] # order[l]
              /\ \A k \in DOMAIN examples :
                    examples[k] = Shown(subset[order[k]].review)

\* C19: a driver carries the (at most 2) highest-sentiment reviews of its
\* subset as examples and a pain point the (at most 2) lowest-sentiment
\* ones; a text longer than 150 characters is cut to 150 characters followed
\* by "...", and a shorter text is kept unchanged.
C19_ExampleSelection ==
    \A res \in Returned :
        /\ \A i \in DOMAIN res.drivers :
              ExamplesOfBest(res.drivers[i].example_reviews,
                             SubsetOf(res.bank, res.drivers[i].theme), TRUE)
        /\ \A i \in DOMAIN res.pain_points :
              ExamplesOfBest(res.pain_points[i].example_reviews,
                             SubsetOf(res.bank, res.pain_points[i].theme), FALSE)

\* a pain point of three reviews whose first review is not among the two
\* lowest, with one example cut and one kept unchanged
C19_Witness ==
    \E res \in Returned : \E i \in DOMAIN res.pain_points :
        LET entry == res.pain_points[i]
            subset == SubsetOf(res.bank, entry.theme)
        IN  /\ Len(subset) = 3
            /\ subset[1].sentiment_score > subset[2].sentiment_score
            /\ subset[1].sentiment_score > subset[3].sentiment_score
            /\ \E k \in DOMAIN entry.example_reviews :
                  Len(entry.example_reviews[k]) = 153
            /\ \E k \in DOMAIN entry.example_reviews :
                  Len(entry.example_reviews[k]) < 150

\* a driver of three reviews whose first review is not among the two
\* highest, with examples of exactly 150 characters
C19_WitnessDriver ==
    \E res \in Returned : \E i \in DOMAIN res.drivers :
        LET entry == res.drivers[i]
            subset == SubsetOf(res.bank, entry.theme)
        IN  /\ Len(subset) = 3
            /\ subset[1].sentiment_score < subset[2].sentiment_score
            /\ subset[1].sentiment_score < subset[3].sentiment_score
            /\ \A k \in DOMAIN entry.example_reviews :
                  Len(entry.example_reviews[k]) = 150

---------------------------------------------------------------------------
(* More claims about SentimentThemePipeline.run, checked under SpecRun *)

\* a result of run has been computed: it is no longer NoValue (a frame and
\* NoValue are compared as written, a sequence and a record having no
\* equality in TLC)
Computed(value) == ToString(value) # ToString(NoValue)

\* C20: in run, every review is scored before the annotation starts, the
\* annotation is complete before the theme summary and the rating-level
\* sentiment aggregation are computed, all three results are computed
\* before any output is written, and the insight synthesizer is never
\* invoked.
C20_RunOrdering ==
    /\ Computed(annotated_df) =>
          /\ s_pc = "done"
          /\ start >= Len(cleaned_texts)
          /\ Computed(scored_df)
          /\ Len(scored_df) = Len(clean_df)
          /\ Len(results) = Len(clean_df)
    /\ (Computed(theme_summary) \/ Computed(sentiment_summary)) =>
          /\ Computed(annotated_df)
          /\ Len(annotated_df) = Len(scored_df)
    /\ written # <<>> =>
          /\ Computed(annotated_df)
          /\ Computed(theme_summary)
          /\ Computed(sentiment_summary)
    /\ i_pc = "idle"
    /\ extracted = NoValue
    /\ insights = NoValue
    /\ recommendations = NoValue

\* a run that returned after two classifier calls, with a theme summary and
\* a sentiment summary that have rows and the three outputs written
C20_Witness ==
    /\ r_pc = "returned"
    /\ Len(calls) >= 2
    /\ Len(theme_summary) >= 1
    /\ Len(sentiment_summary) >= 1
    /\ written = Outputs

---------------------------------------------------------------------------
(* More claims about score_texts, checked under SpecScore *)

\* C21: the text forwarded to the classifier for a non-empty review is the
\* trimmed text: no text passed to the classifier has leading or trailing
\* whitespace.
C21_ForwardedTrimmed ==
    \A c \in DOMAIN calls : \A i \in DOMAIN calls[c] :
        calls[c][i] = Strip(calls[c][i])

---------------------------------------------------------------------------
(* Claims about the defects of the input of run, checked under SpecRun *)

\* the name of a column as text
ColumnName(col) ==
    IF col = "review" THEN <<"r","e","v","i","e","w">>
    ELSE IF col = "rating" THEN <<"r","a","t","i","n","g">>
    ELSE IF col = "date" THEN <<"d","a","t","e">>
    ELSE <<"b","a","n","k">>

\* run has gone past the preprocessing of its file
Preprocessed == r_pc \notin {"start", "loaded"}

\* C22: if the input lacks a required field (review, rating, date or bank),
\* run fails before the sentiment scorer is invoked and before any output is
\* written, with an error that names the missing field.
C22_MissingFieldRejected ==
    (raw_file.readable /\ ~(required \subseteq raw_file.columns) /\ Preprocessed) =>
        /\ r_pc = "failed"
        /\ s_pc = "idle"
        /\ calls = <<>>
        /\ written = <<>>
        /\ \E col \in required \ raw_file.columns :
              Contains(RunMessage(r_error), ColumnName(col))

\* C22 without the name of the field: run fails before the scorer is invoked
\* and before any output is written
C22_MissingFieldFails ==
    (raw_file.readable /\ ~(required \subseteq raw_file.columns) /\ Preprocessed) =>
        /\ r_pc = "failed"
        /\ r_error = "RuntimeError"
        /\ s_pc = "idle"
        /\ calls = <<>>
        /\ written = <<>>

\* a record of the input whose date cannot be parsed or whose rating is
\* outside 1..5
InvalidRecord(row) == ~row.date_ok \/ row.rating < 1 \/ row.rating > 5

\* C23: if the input contains a record whose date is unparseable or whose
\* rating is missing or outside 1..5, the run fails before scoring rather
\* than completing with that record silently removed.
C23_InvalidRecordRejected ==
    ( /\ raw_file.readable
      /\ raw_file.required
      /\ \E i \in DOMAIN raw_file.rows : InvalidRecord(raw_file.rows[i])
      /\ Preprocessed ) =>
        /\ r_pc = "failed"
        /\ s_pc = "idle"
        /\ calls = <<>>

\* a run that returned on a file with an invalid record, the record removed
C23_SilentlyRemoved ==
    /\ r_pc = "returned"
    /\ \E i \in DOMAIN raw_file.rows : InvalidRecord(raw_file.rows[i])
    /\ Len(annotated_df) = 1
    /\ Len(raw_file.rows) = 2

---------------------------------------------------------------------------
(* Claims about the sentiment coverage of run, checked under SpecRun *)

\* run has computed the coverage len(scored_df) / len(clean_df)
CoverageComputed == Computed(scored_df) /\ Len(clean_df) > 0

C28_CoverageAlwaysOne ==
    /\ CoverageComputed =>
          /\ Len(scored_df) = Len(clean_df)
          /\ \A i \in DOMAIN scored_df :
                /\ scored_df[i].review_id = clean_df[i].review_id
                /\ scored_df[i].review = clean_df[i].review
                /\ scored_df[i].sentiment_label = results[i].sentiment_label
                /\ scored_df[i].sentiment_score = results[i].sentiment_score
    /\ ~warned

\* two cleaned reviews scored in two classifier calls, one of them NEUTRAL
C28_Witness ==
    /\ r_pc = "scored"
    /\ Len(clean_df) = 2
    /\ Len(scored_df) = 2
    /\ Len(calls) = 2
    /\ \E i \in DOMAIN scored_df : scored_df[i].sentiment_label = "NEUTRAL"

---------------------------------------------------------------------------
(* Claims about _aggregate_sentiment, checked under SpecRun *)

\* the reviews of a bank and a rating among the scored and tagged reviews
PairReviews(bank, rating) ==
    {i \in DOMAIN annotated_df :
        annotated_df[i].bank = bank /\ annotated_df[i].rating = rating}

\* C25: the aggregator produces exactly one row per (source, rating) pair
\* that has at least one review; review_count is the number of reviews of
\* the pair, positive_share and negative_share (kept as counts over
\* review_count) are the fractions of them labelled POSITIVE and NEGATIVE,
\* so their sum is at most 1; the review_count values sum to the number of
\* scored reviews; the themes of the reviews play no part.
C25_OneRowPerPair ==
    Computed(sentiment_summary) =>
        /\ \A i \in DOMAIN annotated_df :
              Cardinality({k \in DOMAIN sentiment_summary :
                  /\ sentiment_summary[k].bank = annotated_df[i].bank
                  /\ sentiment_summary[k].rating = annotated_df[i].rating}) = 1
        /\ \A k \in DOMAIN sentiment_summary :
              LET row == sentiment_summary[k]
                  of == PairReviews(row.bank, row.rating)
              IN  /\ of # {}
                  /\ row.review_count = Cardinality(of)
                  /\ row.positive_count =
                        Cardinality({i \in of :
                            annotated_df[i].sentiment_label = "POSITIVE"})
                  /\ row.negative_count =
                        Cardinality({i \in of :
                            annotated_df[i].sentiment_label = "NEGATIVE"})
                  /\ row.positive_count + row.negative_count <= row.review_count
        /\ SumOf(sentiment_summary, "review_count") = Len(scored_df)

\* a summary with one row for two reviews of the same bank and rating, one
\* of them POSITIVE and none NEGATIVE, the reviews carrying different themes
C25_Witness ==
    /\ Computed(sentiment_summary)
    /\ Len(sentiment_summary) = 1
    /\ sentiment_summary[1].review_count = 2
    /\ sentiment_summary[1].positive_count = 1
    /\ sentiment_summary[1].negative_count = 0
    /\ annotated_df[1].themes # annotated_df[2].themes

---------------------------------------------------------------------------
(* Claims about DataPreprocessor, checked under SpecPreprocess *)

\* clean_reviews has returned
Cleaned == p_pc = "clean_reviews"

\* two rows have the same review, rating and bank
SameTriple(x, y) == x.review = y.review /\ x.rating = y.rating /\ x.bank = y.bank

\* every output row has the columns review, rating, date, bank and source
HasRequiredColumns ==
    \A k \in DOMAIN p_out :
        {"review", "rating", "date_ok", "bank", "source"} \subseteq DOMAIN p_out[k]

C26_WitnessIds ==
    /\ Cleaned
    /\ "review_id" \in p_df.columns
    /\ Len(p_out) = 2
    /\ SameTriple(p_out[1], p_out[2])

\* a rating between 1 and 5, a date that can be parsed and a bank
ValidRecord(row) ==
    row.rating >= 1 /\ row.rating <= 5 /\ row.date_ok /\ row.bank # NoBank

\* an earlier row of the input has the key of row i, the reviews compared as
\* given (normalised = FALSE) or with their whitespace normalised
EarlierSame(i, normalised) ==
    \E j \in 1..(i - 1) :
        IF "review_id" \in p_df.columns
        THEN p_df.rows[j].review_id = p_df.rows[i].review_id
        ELSE /\ p_df.rows[j].rating = p_df.rows[i].rating
             /\ p_df.rows[j].bank = p_df.rows[i].bank
             /\ IF normalised
                THEN CleanReviewText(p_df.rows[j].review)
                         = CleanReviewText(p_df.rows[i].review)
                ELSE p_df.rows[j].review = p_df.rows[i].review

\* the input rows Q are kept: they are found in the output, in their order,
\* each in a row of its own
KeptRows(Q) ==
    \E at \in [Q -> DOMAIN p_out] :
        /\ \A i, j \in Q : i < j => at[i] < at[j]
        /\ \A i \in Q :
              /\ p_out[at[i]].review = CleanReviewText(p_df.rows[i].review)
              /\ p_out[at[i]].rating = p_df.rows[i].rating
              /\ p_out[at[i]].bank = p_df.rows[i].bank

\* what C27 says of the rows validate_ratings, filter_review_length and
\* clean_reviews return
OutputRowsValid ==
    /\ p_pc = "validate_ratings" =>
          \A k \in DOMAIN p_out : p_out[k].rating >= 1 /\ p_out[k].rating <= 5
    /\ p_pc = "filter_review_length" =>
          \A k \in DOMAIN p_out :
              p_out[k].review.isstr /\ Len(p_out[k].review.s) >= min_review_length
    /\ Cleaned =>
          \A k \in DOMAIN p_out :
              /\ p_out[k].rating >= 1 /\ p_out[k].rating <= 5
              /\ Len(p_out[k].review) >= min_review_length
              /\ p_out[k].date_ok
              /\ p_out[k].bank # NoBank

---------------------------------------------------------------------------
(* More claims about annotate_reviews_with_themes, checked under SpecThemes *)

\* a keyword made of the characters a normalized text can have
PlainKeyword(kw) == \A c \in Range(kw) : c \in AlnumLower \/ c = " "

\* "user-friendly" and "would like"
UserFriendlyKeyword == <<"u","s","e","r","-","f","r","i","e","n","d","l","y">>
WouldLikeKeyword == <<"w","o","u","l","d"," ","l","i","k","e">>

\* C29: every character outside [a-z0-9] and whitespace is replaced by a
\* space before matching, so a keyword with such a character (the default
\* catalog's "user-friendly") is in no normalized text and never causes its
\* theme to be assigned, while a keyword of several words such as "would
\* like" also matches a text where punctuation separated the words.
C29_PunctuationBecomesSpace ==
    t_pc = "annotated" =>
        \A i \in DOMAIN annotated :
            LET n == NormalizedText(df[i].review.s)
                th == Range(annotated[i].themes)
            IN  /\ \A t \in CatalogThemes :
                      t \in th <=>
                          \E kw \in KeywordsOf(t) : PlainKeyword(kw) /\ Contains(n, kw)
                /\ \A t \in CatalogThemes : \A kw \in KeywordsOf(t) :
                      ~PlainKeyword(kw) => ~Contains(n, kw)
                /\ ( /\ Contains(Lower(df[i].review.s),
                                 <<"w","o","u","l","d",",">> \o <<" ","l","i","k","e">>)
                     /\ WouldLikeKeyword \in KeywordsOf(FeatureRequests) )
                       => FeatureRequests \in th

\* "Very User-Friendly!" annotated with the sentinel alone and "I would,
\* like dark mode" with "Feature Requests", under a catalog that has both
\* keywords
C29_Witness ==
    /\ t_pc = "annotated"
    /\ UserFriendlyKeyword \in KeywordsOf(UserInterfaceExperience)
    /\ WouldLikeKeyword \in KeywordsOf(FeatureRequests)
    /\ \E i, j \in DOMAIN annotated :
          /\ df[i].review.s = UserFriendlyText
          /\ annotated[i].themes = <<OtherFeedback>>
          /\ df[j].review.s = WouldLikeText
          /\ annotated[j].themes = <<FeatureRequests>>

---------------------------------------------------------------------------
(* C30 *)

\* the calls of the review fetch among the events, and the failed ones
FetchCalls(events) == Len(SelectSeq(events, LAMBDA e : e # "sleep"))
FailedCalls(events) == Len(SelectSeq(events, LAMBDA e : e = "failed"))

\* the review fetch is called at most max_retries times; a successful
\* attempt is the last event and its result is what is returned; a sleep
\* comes only right after a failed attempt that is not the last of the
\* max_retries; an empty list is returned once max_retries attempts have
\* failed, and without a successful attempt nothing is returned before that
C30_AttemptsBounded ==
    /\ sc_pc \in {"loop", "returned"}
    /\ FetchCalls(sc_events) <= sc_max_retries
    /\ \A i \in DOMAIN sc_events :
          /\ sc_events[i] = "fetched" =>
                /\ i = Len(sc_events)
                /\ sc_pc = "returned"
                /\ sc_result \in Fetched(sc_app_id, sc_count,
                                         FailedCalls(sc_events))
          /\ sc_events[i] = "sleep" =>
                /\ i > 1
                /\ sc_events[i - 1] = "failed"
                /\ FetchCalls(SubSeq(sc_events, 1, i)) < sc_max_retries
    /\ (sc_pc = "returned" /\ FailedCalls(sc_events) = FetchCalls(sc_events)) =>
          /\ FailedCalls(sc_events) = sc_max_retries
          /\ sc_result = <<>>

\* C30: scrape_reviews always terminates without raising: it calls the review
\* fetch at most max_retries times, returns the result of the first
\* successful attempt without further attempts, sleeps only after a failed
\* attempt that is not the last, and returns an empty list once all
\* max_retries attempts have failed.
C30_TerminatesWithinRetries == []C30_AttemptsBounded /\ <>(sc_pc = "returned")

\* three attempts failed, with a sleep after the first two only, and the
\* empty list was returned
C30_Witness ==
    /\ sc_pc = "returned"
    /\ sc_max_retries = 3
    /\ sc_events = <<"failed", "sleep", "failed", "sleep", "failed">>
    /\ sc_result = <<>>

\* the second attempt succeeded and its two reviews were returned
C30_WitnessSecondAttempt ==
    /\ sc_pc = "returned"
    /\ sc_max_retries = 3
    /\ sc_events = <<"failed", "sleep", "fetched">>
    /\ Len(sc_result) = 2
    /\ sc_result[1].reviewId[2] = 1

=============================================================================
